---- MODULE Spec2Model ----
(***************************************************************************)
(* Model of the Herd server (src/server/db.ts, which holds both the schema *)
(* of initDb and the Express handlers; src/server/index.ts is the earlier  *)
(* demo-user-only variant of the same handlers).                           *)
(*                                                                         *)
(* The database is the shared state.  Every action is the execution of one *)
(* SQL statement of a handler together with the synchronous JavaScript     *)
(* that follows it up to the next await (Node runs that code atomically),  *)
(* so requests interleave at the granularity of single SQL statements.     *)
(***************************************************************************)
EXTENDS Integers, Sequences, FiniteSets, TLC

VARIABLES
    users,        \* table users: set of rows
    nextUserId,   \* the SERIAL sequence behind users.id
    history,      \* table streaming_history: set of rows
    comments,     \* table comments: set of rows
    nextCommentId,\* the SERIAL sequence behind comments.id
    likes,        \* table comment_likes: set of rows
    tokens,       \* the user ids of the session tokens issued so far
    reqs,         \* the HTTP requests received so far, with their locals
    sync,         \* the startup bulk sync (syncAllUsersFromFiles)
    disk,         \* the User_*_Streaming_History_Audio*.json files
    faults        \* storage errors injected so far

vars == <<users, nextUserId, history, comments, nextCommentId, likes,
          tokens, reqs, sync, disk, faults>>

----------------------------------------------------------------------------
(* Bounds of the model. *)

\* db.ts:662 and db.ts:221 set BATCH_SIZE = 500; the model scales the
\* batch size down so that files of a few records span several batches.
BATCH_SIZE == 2

\* Uploads received in one behaviour.
MaxUploads == 2

\* GET requests (profile, artist page) received in one behaviour.
MaxReads == 1

\* Comments posted, like requests and Spotify syncs in one behaviour.
MaxComments == 1
MaxLikes == 2
MaxSpotify == 2

\* Signup, login, set-password, logout, me and search requests in one
\* behaviour.
MaxCalls == 2

\* Requests of all kinds in a behaviour of the whole API.
MaxRequests == 2

\* Runs of the startup bulk sync (process starts) in one behaviour.
MaxSyncRuns == 2

\* Storage errors injected in one behaviour.
MaxFaults == 1

\* db.ts:489, 498 and 547 say LIMIT 10; the model scales the limit of the
\* top lists down so that a few users and songs exceed it.
TOP_LIMIT == 2

----------------------------------------------------------------------------
(* Values. *)

\* SQL NULL / a missing or null JSON field.
NULL == "NULL"

Min(a, b) == IF a < b THEN a ELSE b

\* Lower-casing of one character (ILIKE compares case-insensitively).
Lower(c) ==
    CASE c = "A" -> "a"
      [] c = "Q" -> "q"
      [] c = "U" -> "u"
      [] OTHER -> c

\* s ILIKE p: case-insensitive LIKE; in the pattern % matches any run of
\* characters and _ matches any one character.  Strings are sequences of
\* one-character strings.
RECURSIVE ILike(_, _)
ILike(s, p) ==
    IF p = <<>> THEN s = <<>>
    ELSE IF Head(p) = "%"
         THEN ILike(s, Tail(p)) \/ (s # <<>> /\ ILike(Tail(s), p))
    ELSE IF s = <<>> THEN FALSE
    ELSE /\ (Head(p) = "_" \/ Lower(Head(s)) = Lower(Head(p)))
         /\ ILike(Tail(s), Tail(p))

\* Equality of two strings ignoring letter case.
RECURSIVE EqIgnoreCase(_, _)
EqIgnoreCase(s, t) ==
    IF s = <<>> \/ t = <<>> THEN s = t
    ELSE Lower(Head(s)) = Lower(Head(t)) /\ EqIgnoreCase(Tail(s), Tail(t))

\* Display names used as inputs.
NameLower == <<"a", "b">>
NameUpper == <<"A", "b">>
NameOther == <<"c", "d">>
NameNew == <<"x", "y">>
NameShort == <<"a">>
NamePattern == <<"%">>

\* Artist names used in the history files.
ArtistQ == <<"q">>
ArtistUpperQ == <<"Q">>
ArtistOther == <<"r">>

\* One entry of a history export: ts, master_metadata_track_name,
\* master_metadata_album_artist_name, ms_played.  kind "null" is a JSON null
\* in the array instead of an object.
Entry(ts, track, artist, ms) ==
    [kind |-> "obj", ts |-> ts, track |-> track, artist |-> artist, ms |-> ms]
NullEntry == [kind |-> "null", ts |-> 0, track |-> NULL, artist |-> <<>>, ms |-> 0]

\* A file: ok is FALSE when reading or JSON.parse throws.
File(data) == [ok |-> TRUE, data |-> data]
FBad == [ok |-> FALSE, data |-> <<>>]

\* The spec's scenario: two valid entries (1000 and 2000 ms), one with 0 ms.
FNova == File(<<Entry(1, "t1", ArtistQ, 1000),
                Entry(2, "t2", ArtistQ, 2000),
                Entry(3, "t3", ArtistQ, 0)>>)

\* Five valid entries (30000 ms in all, track t1 three times) and three
\* invalid ones: empty track name, missing track name, negative duration.
FLong == File(<<Entry(1, "t1", ArtistQ, 20000),
                Entry(2, "", ArtistQ, 500),
                Entry(3, "t1", ArtistUpperQ, 4000),
                Entry(4, NULL, ArtistQ, 700),
                Entry(5, "t2", ArtistQ, 3000),
                Entry(6, "t3", ArtistQ, 0 - 5),
                Entry(7, "t1", ArtistQ, 2000),
                Entry(8, "t4", ArtistOther, 1000)>>)

\* A valid entry followed by a JSON null.
FNull == File(<<Entry(1, "t1", ArtistQ, 1000), NullEntry>>)

\* A readable file without a valid entry.
FNone == File(<<Entry(1, "", ArtistQ, 100)>>)

\* A file of one valid entry.
FOne == File(<<Entry(1, "t5", ArtistQ, 5000)>>)

\* A file that holds the same valid entry three times.
FTwice == File(<<Entry(1, "t6", ArtistQ, 5000),
                 Entry(1, "t6", ArtistQ, 5000),
                 Entry(1, "t6", ArtistQ, 5000)>>)

----------------------------------------------------------------------------
(* The Record Validator and the Batch Inserter's partition. *)

\* A validator that tests the fields for presence only.
IsValidLoose(r) == r.track # NULL /\ r.ms >= 0

\* r.master_metadata_track_name && r.ms_played > 0
IsValid(r) == r.track # NULL /\ r.track # "" /\ r.ms > 0

\* data.filter(...) reads a property of every element: a null element
\* throws a TypeError, which the per-file catch takes.
FilterThrows(data) == \E k \in 1..Len(data) : data[k].kind = "null"

\* const validRecords = data.filter(...)
ValidRecords(data) == SelectSeq(data, IsValid)

\* JSON.parse(fs.readFileSync(...)) and the filter both return.
Readable(file) == file.ok /\ ~FilterThrows(file.data)

\* A slice one record too long: consecutive batches overlap.
SliceOverlap(valid, i) ==
    SubSeq(valid, i + 1, Min(i + BATCH_SIZE + 1, Len(valid)))

\* validRecords.slice(i, i + BATCH_SIZE), i counted from 0.
Slice(valid, i) == SubSeq(valid, i + 1, Min(i + BATCH_SIZE, Len(valid)))

\* A files loop that an unreadable file ends.
NextFileStop(files, k) ==
    IF k > Len(files) THEN k
    ELSE IF Readable(files[k]) /\ Len(ValidRecords(files[k].data)) > 0 THEN k
    ELSE Len(files) + 1

\* The for-of loop over the files, run from file k until a file needs its
\* first insert: a file that throws is caught and skipped, a file without
\* valid records issues no statement.  Len(files) + 1 when none is left.
RECURSIVE NextFile(_, _)
NextFile(files, k) ==
    IF k > Len(files) THEN k
    ELSE IF Readable(files[k]) /\ Len(ValidRecords(files[k].data)) > 0 THEN k
    ELSE NextFile(files, k + 1)

\* An insert with a conflict guard: a record the user already has a row of
\* is dropped.
RowsUnlessPresent(uid, batch, src, stmt) ==
    { [user_id |-> uid, ts |-> batch[k].ts, track |-> batch[k].track,
       artist |-> batch[k].artist, ms |-> batch[k].ms, src |-> src,
       n |-> <<stmt, k>>]
      : k \in {m \in 1..Len(batch) :
                ~ \E h \in history :
                     /\ h.user_id = uid /\ h.ts = batch[m].ts
                     /\ h.track = batch[m].track /\ h.ms = batch[m].ms} }

\* An insert that loses the last element of its VALUES list.
RowsButLast(uid, batch, src, stmt) ==
    { [user_id |-> uid, ts |-> batch[k].ts, track |-> batch[k].track,
       artist |-> batch[k].artist, ms |-> batch[k].ms, src |-> src,
       n |-> <<stmt, k>>]
      : k \in 1..(Len(batch) - 1) }

\* The rows one bulk INSERT INTO streaming_history adds, one per element of
\* the VALUES list.  src is not a column: it records which run and file
\* issued the statement.  n stands for the id column, which makes two rows
\* of equal content two rows: the number of the statement in its run and
\* the position in its VALUES list.
Rows(uid, batch, src, stmt) ==
    { [user_id |-> uid, ts |-> batch[k].ts, track |-> batch[k].track,
       artist |-> batch[k].artist, ms |-> batch[k].ms, src |-> src,
       n |-> <<stmt, k>>]
      : k \in 1..Len(batch) }

\* A users row as INSERT INTO users (username, avatar) creates it.
UserRow(id, name, hash) ==
    [id |-> id, username |-> name, password_hash |-> hash, avatar |-> "goat",
     spotify_connected |-> FALSE]

\* A count that never sees the user's rows.
CountHistoryNone(uid) == 0

\* SELECT COUNT(*) FROM streaming_history WHERE user_id = $1
CountHistory(uid) == Cardinality({h \in history : h.user_id = uid})

----------------------------------------------------------------------------
(* POST /api/upload. *)

\* The requests received so far whose handler is one of ops.
NumReqs(ops) == Cardinality({q \in 1..Len(reqs) : reqs[q].op \in ops})

\* Display names a client sends with an upload; the empty string stands for
\* no username field as well (both are falsy).
UploadNames == {NameLower, NameUpper, NameNew, <<>>}

\* The file lists a client uploads.
UploadFiles ==
    { <<FNova, FOne>>, <<FLong>>, <<FBad, FNone, FTwice>>, <<FNull, FNova>> }

\* req.body.username || `User_${uuidv4().slice(0, 8)}`: without a username
\* the request gets a random name, distinct per request.
GenName(p) == <<"U", <<"1", "2", "3", "4", "5", "6", "7", "8", "9">>[p]>>
UploadName(name, p) == IF name = <<>> THEN GenName(p) ELSE name

\* SELECT id FROM users WHERE username = $1
UsersNamed(name) == {u \in users : u.username = name}

\* The UNIQUE constraint on users.username (VARCHAR: exact comparison).
UsernameTaken(name) == \E u \in users : u.username = name

\* The locals of a new upload request.  created, issued, ciMatch and seen
\* are not program state: they record whether the request inserted its
\* user, the statements it issued, the users whose name equalled the
\* requested one ignoring case when its lookup ran, and the requests that
\* had been answered when it arrived; likeMatch is the users an ILIKE
\* lookup of the name would have found.
NewUpload(name, files) ==
    [op |-> "upload", pc |-> "lookup", name |-> name, files |-> files,
     userId |-> 0, f |-> 0, i |-> 0, total |-> 0, status |-> 0,
     created |-> FALSE, issued |-> <<>>,
     ciMatch |-> {u \in users : EqIgnoreCase(u.username, name)},
     likeMatch |-> {u \in users : ILike(u.username, name)},
     seen |-> {q \in 1..Len(reqs) : reqs[q].pc = "done"}]

\* A files loop that issues the second batch of a file first.
UploadGotoSecond(r, j) ==
    IF j > Len(r.files)
    THEN [r EXCEPT !.pc = "done", !.status = 200, !.f = j, !.i = 0]
    ELSE [r EXCEPT !.pc = "batch", !.f = j, !.i = BATCH_SIZE]

\* The files loop from file j on: the next insert to issue, or the response
\* res.json({ success: true, userId, recordsImported: totalRecords }).
UploadGoto(r, j) ==
    IF j > Len(r.files)
    THEN [r EXCEPT !.pc = "done", !.status = 200, !.f = j, !.i = 0]
    ELSE [r EXCEPT !.pc = "batch", !.f = j, !.i = 0]

\* The request arrives and its lookup of the user runs.
UploadLookup(name, files) ==
    /\ NumReqs({"upload"}) < MaxUploads
    /\ LET p == Len(reqs) + 1
           r == NewUpload(UploadName(name, p), files)
           found == UsersNamed(r.name)
       IN IF found = {}
          THEN reqs' = Append(reqs, [r EXCEPT !.pc = "insertUser"])
          ELSE \E u \in found :
                 reqs' = Append(reqs,
                     UploadGoto([r EXCEPT !.userId = u.id],
                                NextFile(files, 1)))
    /\ UNCHANGED <<users, nextUserId, history, comments, nextCommentId, likes,
                   sync, disk, faults, tokens>>

\* INSERT INTO users (username, avatar) VALUES ($1, 'goat') RETURNING id.
\* A unique violation throws to the handler's outer catch: status 500.  The
\* sequence value is consumed either way.
UploadInsertUser(p) ==
    /\ p \in 1..Len(reqs)
    /\ reqs[p].op = "upload" /\ reqs[p].pc = "insertUser"
    /\ nextUserId' = nextUserId + 1
    /\ IF UsernameTaken(reqs[p].name)
       THEN /\ reqs' = [reqs EXCEPT ![p].pc = "done", ![p].status = 500]
            /\ users' = users
       ELSE /\ users' = users \cup {UserRow(nextUserId, reqs[p].name, NULL)}
            /\ reqs' = [reqs EXCEPT ![p] =
                   UploadGoto([@ EXCEPT !.userId = nextUserId, !.created = TRUE],
                              NextFile(@.files, 1))]
    /\ UNCHANGED <<history, comments, nextCommentId, likes, sync, disk, faults, tokens>>

\* A catch that gives the request up with status 500.
UploadCatchAbort(r) == [r EXCEPT !.pc = "done", !.status = 500]

\* A catch that goes on with the next batch of the file.
UploadCatchContinue(r) ==
    IF r.i + BATCH_SIZE < Len(ValidRecords(r.files[r.f].data))
    THEN [r EXCEPT !.i = @ + BATCH_SIZE]
    ELSE UploadGoto(r, NextFile(r.files, r.f + 1))

\* catch (e) { console.error(...) } of one file: the file's loop is left and
\* the files loop goes on.
UploadCatch(r) == UploadGoto(r, NextFile(r.files, r.f + 1))

\* The counter increased before the statement is awaited.
CountedBefore(total, batch, ok) == total + Len(batch)

\* totalRecords += batch.length, the statement after the awaited insert: it
\* runs when the insert has succeeded (ok) and is jumped over by the throw.
Counted(total, batch, ok) == IF ok THEN total + Len(batch) ELSE total

\* One bulk INSERT INTO streaming_history of the batch at offset i of file f,
\* then totalRecords += batch.length and the loops up to the next statement.
\* A storage error is caught by the file's catch: the rest of the file is
\* dropped and the loop goes on with the next file.
UploadBatch(p) ==
    /\ p \in 1..Len(reqs)
    /\ reqs[p].op = "upload" /\ reqs[p].pc = "batch"
    /\ LET r == reqs[p]
           valid == ValidRecords(r.files[r.f].data)
           batch == Slice(valid, r.i)
           src == [kind |-> "upload", run |-> p, key |-> 0, file |-> r.f]
       IN \/ /\ history' = history \cup Rows(r.userId, batch, src, Len(r.issued) + 1)
             /\ faults' = faults
             /\ LET r1 == [r EXCEPT !.total = Counted(@, batch, TRUE),
                                    !.i = @ + BATCH_SIZE,
                                    !.issued = Append(@,
                                        [key |-> 0, f |-> r.f, batch |-> batch,
                                         ok |-> TRUE])]
                IN reqs' = [reqs EXCEPT ![p] =
                       IF r1.i < Len(valid) THEN r1
                       ELSE UploadGoto(r1, NextFile(r.files, r.f + 1))]
          \/ /\ faults < MaxFaults
             /\ faults' = faults + 1
             /\ history' = history
             /\ reqs' = [reqs EXCEPT ![p] =
                    UploadCatch([r EXCEPT !.total = Counted(@, batch, FALSE),
                                          !.issued = Append(@,
                                    [key |-> 0, f |-> r.f, batch |-> batch,
                                     ok |-> FALSE])])]
    /\ UNCHANGED <<users, nextUserId, comments, nextCommentId, likes, sync, disk, tokens>>

----------------------------------------------------------------------------
(* syncAllUsersFromFiles, started by start() without being awaited. *)

\* match[1].replace(/_/g, ' ')
RECURSIVE Underscores(_)
Underscores(s) ==
    IF s = <<>> THEN <<>>
    ELSE <<IF Head(s) = "_" THEN " " ELSE Head(s)>> \o Underscores(Tail(s))

\* String.prototype.trim
RECURSIVE Trim(_)
Trim(s) ==
    IF s = <<>> THEN s
    ELSE IF Head(s) = " " THEN Trim(Tail(s))
    ELSE IF s[Len(s)] = " " THEN Trim(SubSeq(s, 1, Len(s) - 1))
    ELSE s

\* The display name recovered from a file name User_<raw>_Streaming_...
RawName(raw) == Trim(Underscores(raw))

\* Object.entries(userFilesMap): the names in order of first appearance.
RECURSIVE SyncKeys(_)
SyncKeys(d) ==
    IF d = <<>> THEN <<>>
    ELSE LET rest == SyncKeys(SubSeq(d, 1, Len(d) - 1))
             name == RawName(d[Len(d)].user)
         IN IF \E k \in 1..Len(rest) : rest[k] = name THEN rest
            ELSE Append(rest, name)

\* userFilesMap[name]: the files of one name, in directory order.
RECURSIVE SyncFiles(_, _)
SyncFiles(d, name) ==
    IF d = <<>> THEN <<>>
    ELSE IF RawName(Head(d).user) = name
         THEN <<Head(d).content>> \o SyncFiles(Tail(d), name)
         ELSE SyncFiles(Tail(d), name)

\* The directory listings the model starts from.
DiskA == << [user |-> <<"a", "b">>, content |-> FLong],
            [user |-> <<"_", "a", "b">>, content |-> FNova],
            [user |-> <<"A", "b">>, content |-> FOne],
            [user |-> <<"c", "d">>, content |-> FBad] >>
DiskB == << [user |-> <<"%">>, content |-> FTwice],
            [user |-> <<"c", "d", "_">>, content |-> FNull],
            [user |-> <<"c", "d">>, content |-> FNone] >>
Disks == {DiskA, DiskB}

\* SELECT id FROM users WHERE username ILIKE $1
UsersLike(name) == {u \in users : ILike(u.username, name)}

\* The locals of the sync.  issued, skipped, entered, ciMatch, created and
\* imported are not program state: the statements issued, the users skipped
\* for having data, the names whose files loop started, the users whose
\* name equalled the current one ignoring case at its lookup, whether the
\* current user was inserted, and the totals logged.
IdleSync ==
    [pc |-> "idle", run |-> 0, keys |-> <<>>, k |-> 0, userId |-> 0,
     f |-> 0, i |-> 0, total |-> 0, issued |-> <<>>, skipped |-> {},
     entered |-> {}, ciMatch |-> {}, created |-> FALSE, imported |-> <<>>,
     failed |-> {}]

\* The files of the user the sync is at.
SyncCurrentFiles(s) == SyncFiles(disk, s.keys[s.k])

\* The for-of loop over the users moves on to the next name: its lookup is
\* issued, or the sync ends.
SyncNextUser(s) ==
    IF s.k + 1 > Len(s.keys)
    THEN [s EXCEPT !.pc = "done", !.k = @ + 1]
    ELSE [s EXCEPT !.pc = "lookup", !.k = @ + 1, !.userId = 0, !.f = 0,
                   !.i = 0, !.total = 0, !.ciMatch = {}, !.created = FALSE]

\* The loop over the users stops at the first user that throws.
SyncCatchAbort(s) ==
    [s EXCEPT !.pc = "done", !.k = Len(s.keys) + 1, !.failed = @ \cup {s.k}]

\* catch (e) { console.error(`Error syncing user ...`) } inside the loop over
\* the users: the loop goes on with the next name.  failed is not program
\* state: it keeps the names whose try block threw.
SyncCatch(s) == SyncNextUser([s EXCEPT !.failed = @ \cup {s.k}])

\* The files loop of one user from file j on: the next insert, or the log
\* line "Imported N records" and the next user.
SyncGoto(s, j) ==
    IF j > Len(SyncCurrentFiles(s))
    THEN SyncNextUser([s EXCEPT !.imported =
                          Append(@, [key |-> s.k, total |-> s.total])])
    ELSE [s EXCEPT !.pc = "batch", !.f = j, !.i = 0]

\* The process starts (again): requests in flight die with the old process,
\* the directory is read and the first lookup is issued.
SyncStart ==
    /\ sync.pc \in {"idle", "done"}
    /\ sync.run < MaxSyncRuns
    /\ sync' = SyncNextUser([IdleSync EXCEPT !.run = sync.run + 1,
                                             !.keys = SyncKeys(disk)])
    /\ reqs' = [p \in 1..Len(reqs) |->
                  IF reqs[p].pc = "done" THEN reqs[p]
                  ELSE [reqs[p] EXCEPT !.pc = "done", !.status = 0]]
    /\ UNCHANGED <<users, nextUserId, history, comments, nextCommentId, likes,
                   disk, faults, tokens>>

\* SELECT id FROM users WHERE username ILIKE $1; userResult.rows[0] is any
\* of the matching rows.  A storage error throws to the user's catch.
SyncLookup ==
    /\ sync.pc = "lookup"
    /\ LET found == UsersLike(sync.keys[sync.k])
           ci == {u \in users : EqIgnoreCase(u.username, sync.keys[sync.k])}
       IN \/ /\ faults' = faults
             /\ IF found = {}
                THEN sync' = [sync EXCEPT !.pc = "insertUser", !.ciMatch = ci]
                ELSE \E u \in found :
                       sync' = [sync EXCEPT !.pc = "count", !.userId = u.id,
                                            !.ciMatch = ci]
          \/ /\ faults < MaxFaults
             /\ faults' = faults + 1
             /\ sync' = SyncCatch(sync)
    /\ UNCHANGED <<users, nextUserId, history, comments, nextCommentId, likes,
                   reqs, disk, tokens>>

\* INSERT INTO users (username, avatar) VALUES ($1, 'goat') RETURNING id.
\* A unique violation throws to the user's catch: the user is skipped.
SyncInsertUser ==
    /\ sync.pc = "insertUser"
    /\ nextUserId' = nextUserId + 1
    /\ IF UsernameTaken(sync.keys[sync.k])
       THEN /\ users' = users
            /\ sync' = SyncCatch(sync)
       ELSE /\ users' = users \cup
                   {UserRow(nextUserId, sync.keys[sync.k], NULL)}
            /\ sync' = [sync EXCEPT !.pc = "count", !.userId = nextUserId,
                                    !.created = TRUE]
    /\ UNCHANGED <<history, comments, nextCommentId, likes, reqs, disk, faults, tokens>>

\* SELECT COUNT(*) FROM streaming_history WHERE user_id = $1: a user with
\* data is skipped, otherwise the files loop starts.  A storage error
\* throws to the user's catch.
SyncCount ==
    /\ sync.pc = "count"
    /\ \/ /\ faults' = faults
          /\ sync' = IF CountHistory(sync.userId) > 0
                     THEN SyncNextUser([sync EXCEPT !.skipped = @ \cup
                              {[key |-> sync.k, user |-> sync.userId]}])
                     ELSE SyncGoto([sync EXCEPT !.entered = @ \cup
                                       {[key |-> sync.k, user |-> sync.userId]}],
                                   NextFile(SyncCurrentFiles(sync), 1))
       \/ /\ faults < MaxFaults
          /\ faults' = faults + 1
          /\ sync' = SyncCatch(sync)
    /\ UNCHANGED <<users, nextUserId, history, comments, nextCommentId, likes,
                   reqs, disk, tokens>>

\* One bulk INSERT INTO streaming_history, as in the upload handler.
SyncBatch ==
    /\ sync.pc = "batch"
    /\ LET files == SyncCurrentFiles(sync)
           valid == ValidRecords(files[sync.f].data)
           batch == Slice(valid, sync.i)
           src == [kind |-> "sync", run |-> sync.run, key |-> sync.k,
                   file |-> sync.f]
       IN \/ /\ history' = history \cup Rows(sync.userId, batch, src, Len(sync.issued) + 1)
             /\ faults' = faults
             /\ LET s1 == [sync EXCEPT !.total = Counted(@, batch, TRUE),
                                       !.i = @ + BATCH_SIZE,
                                       !.issued = Append(@,
                                           [key |-> sync.k, f |-> sync.f,
                                            batch |-> batch, ok |-> TRUE])]
                IN sync' = IF s1.i < Len(valid) THEN s1
                           ELSE SyncGoto(s1, NextFile(files, sync.f + 1))
          \/ /\ faults < MaxFaults
             /\ faults' = faults + 1
             /\ history' = history
             /\ sync' = SyncGoto([sync EXCEPT !.total = Counted(@, batch, FALSE),
                                               !.issued = Append(@,
                                      [key |-> sync.k, f |-> sync.f,
                                       batch |-> batch, ok |-> FALSE])],
                                 NextFile(files, sync.f + 1))
    /\ UNCHANGED <<users, nextUserId, comments, nextCommentId, likes, reqs, disk, tokens>>

----------------------------------------------------------------------------
(* Aggregation queries: GET /api/user/:userId? and GET /api/artist/:name. *)

DEMO_USER_ID == 1

\* SUM(ms_played) over a set of rows.
RECURSIVE SumMs(_)
SumMs(S) ==
    IF S = {} THEN 0
    ELSE LET h == CHOOSE x \in S : TRUE IN h.ms + SumMs(S \ {h})

\* Minutes cut off instead of rounded.
RoundMinutesDown(ms) == ms \div 60000

\* Math.round(parseInt(total_ms) / 60000): halves round up.
RoundMinutes(ms) == (ms + 30000) \div 60000

\* The groups in ascending order of their totals.
RECURSIVE OrderedAscending(_)
OrderedAscending(G) ==
    IF G = {} THEN {<<>>}
    ELSE UNION { {<<g>> \o t : t \in OrderedAscending(G \ {g})} :
                 g \in {x \in G : \A y \in G : x.total <= y.total} }

\* ORDER BY total_ms DESC: every order of the groups G that is descending
\* in their totals; groups with equal totals come in any order.
RECURSIVE Ordered(_)
Ordered(G) ==
    IF G = {} THEN {<<>>}
    ELSE UNION { {<<g>> \o t : t \in Ordered(G \ {g})} :
                 g \in {x \in G : \A y \in G : x.total >= y.total} }

\* The limit applied from the wrong end of the order.
TopNTail(G) ==
    { SubSeq(t, Len(t) - Min(TOP_LIMIT, Len(t)) + 1, Len(t)) : t \in Ordered(G) }

\* ORDER BY total_ms DESC LIMIT 10
TopN(G) == { SubSeq(t, 1, Min(TOP_LIMIT, Len(t))) : t \in Ordered(G) }

\* The rows of user uid for artists matching the pattern, in table T.
ArtistRows(T, uid, artist) ==
    {h \in T : h.user_id = uid /\ ILike(h.artist, artist)}

\* The leaderboard query's groups: streaming_history JOIN users WHERE
\* sh.artist_name ILIKE $1 GROUP BY u.id, u.username, u.avatar.
BoardGroups(artist) ==
    { [userId |-> u.id, username |-> u.username, avatar |-> u.avatar,
       total |-> SumMs(ArtistRows(history, u.id, artist)),
       songs |-> Cardinality({h.track : h \in ArtistRows(history, u.id, artist)})]
      : u \in {x \in users : ArtistRows(history, x.id, artist) # {}} }

\* leaderboardQuery.rows.map((r, i) => ({ rank: i + 1, ... }))
BoardRows(t, current) ==
    [n \in 1..Len(t) |->
       [rank |-> n, userId |-> t[n].userId, username |-> t[n].username,
        minutes |-> RoundMinutes(t[n].total), songCount |-> t[n].songs,
        isCurrentUser |-> (t[n].userId = current)]]

COMMENT_LIMIT == 20

\* The comments query: comments JOIN users WHERE c.artist_name ILIKE $1
\* ORDER BY c.created_at DESC LIMIT 20.  Comments are created in the order
\* of their ids.
RECURSIVE NewestFirst(_)
NewestFirst(C) ==
    IF C = {} THEN <<>>
    ELSE LET c == CHOOSE x \in C : \A y \in C : x.id >= y.id
         IN <<c>> \o NewestFirst(C \ {c})
ArtistComments(artist) ==
    LET t == NewestFirst({c \in comments :
                 /\ ILike(c.artist, artist)
                 /\ \E u \in users : u.id = c.user_id})
    IN SubSeq(t, 1, Min(COMMENT_LIMIT, Len(t)))

\* The artist names a client asks for.
ArtistParams == {ArtistQ, ArtistUpperQ, NamePattern}

\* The identities a request can carry: a session token's user, or none (0).
Identities == tokens \cup {0}

\* The token cookie of a request: absent, a token that jwt.verify rejects
\* for its signature or for its age, or a token of user userId that it
\* accepts.  The server signs tokens only for the users in tokens.
NoCookie == [kind |-> "none", userId |-> 0]
Cookies ==
    {NoCookie} \cup
    {[kind |-> k, userId |-> u] : k \in {"forged", "expired", "valid"},
                                 u \in tokens}

\* A middleware that does not look at the age of a token.
AuthMiddlewareNoExpiry(cookie) ==
    IF cookie.kind \in {"valid", "expired"} THEN cookie.userId ELSE 0

\* authMiddleware: req.userId is the token's user when jwt.verify accepts
\* the token; without a token, and when jwt.verify throws, it stays unset
\* (0 here).
AuthMiddleware(cookie) == IF cookie.kind = "valid" THEN cookie.userId ELSE 0

\* Requests without a session act as another user.
ActingOther(auth) == IF auth = 0 THEN 2 ELSE auth

\* req.userId || DEMO_USER_ID
Acting(auth) == IF auth = 0 THEN DEMO_USER_ID ELSE auth

\* The request arrives and its leaderboard query runs.  snap is not program
\* state: it keeps the table the query read.
ArtistBoard(auth, artist) ==
    /\ NumReqs({"profile", "artist"}) < MaxReads
    /\ auth \in Identities
    /\ \E t \in TopN(BoardGroups(artist)) :
         reqs' = Append(reqs,
            [op |-> "artist", pc |-> "comments", auth |-> auth,
             artist |-> artist, board |-> BoardRows(t, Acting(auth)),
             comments |-> <<>>, status |-> 0, snap |-> history,
             seen |-> {q \in 1..Len(reqs) : reqs[q].pc = "done"}])
    /\ UNCHANGED <<users, nextUserId, history, comments, nextCommentId, likes,
                   tokens, sync, disk, faults>>

\* The comments query runs and the page is sent.
ArtistCommentsQuery(p) ==
    /\ p \in 1..Len(reqs)
    /\ reqs[p].op = "artist" /\ reqs[p].pc = "comments"
    /\ reqs' = [reqs EXCEPT ![p].pc = "done", ![p].status = 200,
                            ![p].comments = ArtistComments(reqs[p].artist)]
    /\ UNCHANGED <<users, nextUserId, history, comments, nextCommentId, likes,
                   tokens, sync, disk, faults>>

\* The :userId parameter: a name, a number, or absent.
ProfileParams ==
    {[kind |-> "name", name |-> NameNew, id |-> 0],
     [kind |-> "name", name |-> NameUpper, id |-> 0],
     [kind |-> "id", name |-> <<>>, id |-> 2],
     [kind |-> "none", name |-> <<>>, id |-> 0]}

\* The user query: by name with ILIKE when the parameter is no number, by
\* id otherwise, DEMO_USER_ID when it is absent.
ProfileFound(param) ==
    IF param.kind = "name" THEN UsersLike(param.name)
    ELSE {u \in users :
            u.id = (IF param.kind = "id" THEN param.id ELSE DEMO_USER_ID)}

\* The request arrives and its user query runs: 404 without a row,
\* userQuery.rows[0] otherwise.
ProfileUser(param) ==
    /\ NumReqs({"profile", "artist"}) < MaxReads
    /\ LET r == [op |-> "profile", pc |-> "stats", param |-> param,
                 user |-> 0, minutes |-> 0, songs |-> 0,
                 topArtists |-> <<>>, topSongs |-> <<>>, status |-> 0,
                 seen |-> {q \in 1..Len(reqs) : reqs[q].pc = "done"}]
       IN IF ProfileFound(param) = {}
          THEN reqs' = Append(reqs, [r EXCEPT !.pc = "done", !.status = 404])
          ELSE \E u \in ProfileFound(param) :
                 reqs' = Append(reqs, [r EXCEPT !.user = u.id])
    /\ UNCHANGED <<users, nextUserId, history, comments, nextCommentId, likes,
                   tokens, sync, disk, faults>>

\* The rows of one user.
UserRows(uid) == {h \in history : h.user_id = uid}

\* COALESCE(SUM(ms_played), 0), COUNT(DISTINCT track_name)
ProfileStats(p) ==
    /\ p \in 1..Len(reqs)
    /\ reqs[p].op = "profile" /\ reqs[p].pc = "stats"
    /\ reqs' = [reqs EXCEPT
          ![p].pc = "topArtists",
          ![p].minutes = RoundMinutes(SumMs(UserRows(reqs[p].user))),
          ![p].songs = Cardinality({h.track : h \in UserRows(reqs[p].user)})]
    /\ UNCHANGED <<users, nextUserId, history, comments, nextCommentId, likes,
                   tokens, sync, disk, faults>>

\* GROUP BY artist_name with SUM(ms_played) and COUNT(*).
ArtistGroups(uid) ==
    { [name |-> a,
       total |-> SumMs({h \in UserRows(uid) : h.artist = a}),
       plays |-> Cardinality({h \in UserRows(uid) : h.artist = a})]
      : a \in {h.artist : h \in UserRows(uid)} }

\* GROUP BY track_name, artist_name with SUM(ms_played) and COUNT(*).
SongGroups(uid) ==
    { [name |-> k[1], artist |-> k[2],
       total |-> SumMs({h \in UserRows(uid) : h.track = k[1] /\ h.artist = k[2]}),
       plays |-> Cardinality({h \in UserRows(uid) :
                                 h.track = k[1] /\ h.artist = k[2]})]
      : k \in {<<h.track, h.artist>> : h \in UserRows(uid)} }

\* rows.map(r => ({ ..., minutes: Math.round(parseInt(r.total_ms) / 60000) }))
WithMinutes(t) ==
    [n \in 1..Len(t) |->
       [name |-> t[n].name, minutes |-> RoundMinutes(t[n].total),
        plays |-> t[n].plays, total |-> t[n].total]]

\* topSongsQuery.rows.map(r => ({ name, artist, minutes, plays }))
SongsWithMinutes(t) ==
    [n \in 1..Len(t) |->
       [name |-> t[n].name, artist |-> t[n].artist,
        minutes |-> RoundMinutes(t[n].total), plays |-> t[n].plays,
        total |-> t[n].total]]

ProfileTopArtists(p) ==
    /\ p \in 1..Len(reqs)
    /\ reqs[p].op = "profile" /\ reqs[p].pc = "topArtists"
    /\ \E t \in TopN(ArtistGroups(reqs[p].user)) :
         reqs' = [reqs EXCEPT ![p].pc = "topSongs",
                              ![p].topArtists = WithMinutes(t)]
    /\ UNCHANGED <<users, nextUserId, history, comments, nextCommentId, likes,
                   tokens, sync, disk, faults>>

\* The last query runs and the profile is sent.
ProfileTopSongs(p) ==
    /\ p \in 1..Len(reqs)
    /\ reqs[p].op = "profile" /\ reqs[p].pc = "topSongs"
    /\ \E t \in TopN(SongGroups(reqs[p].user)) :
         reqs' = [reqs EXCEPT ![p].pc = "done", ![p].status = 200,
                              ![p].topSongs = SongsWithMinutes(t)]
    /\ UNCHANGED <<users, nextUserId, history, comments, nextCommentId, likes,
                   tokens, sync, disk, faults>>

----------------------------------------------------------------------------
(* POST /api/artist/:artistName/comment and POST /api/comment/:id/like. *)

\* A comments reference that is not enforced.
CommentExistsAlways(cid) == TRUE

\* The foreign keys REFERENCES users(id) and REFERENCES comments(id).
UserExists(uid) == \E u \in users : u.id = uid
CommentExists(cid) == \E c \in comments : c.id = cid

\* The bodies a client posts: a text, or no content field.
CommentContents == {"hi", NULL}

\* The request arrives and INSERT INTO comments runs: a missing user or a
\* missing content (NOT NULL) throws to the catch, status 500.  The
\* sequence value is consumed either way.
CommentInsert(auth, artist, content) ==
    /\ NumReqs({"comment"}) < MaxComments
    /\ auth \in Identities
    /\ nextCommentId' = nextCommentId + 1
    /\ LET r == [op |-> "comment", pc |-> "user",
                 userId |-> Acting(auth), artist |-> artist,
                 content |-> content, id |-> 0, status |-> 0]
       IN IF UserExists(r.userId) /\ content # NULL
          THEN /\ comments' = comments \cup
                     {[id |-> nextCommentId, user_id |-> r.userId,
                       artist |-> artist, content |-> content, likes |-> 0]}
               /\ reqs' = Append(reqs, [r EXCEPT !.id = nextCommentId])
          ELSE /\ comments' = comments
               /\ reqs' = Append(reqs, [r EXCEPT !.pc = "done", !.status = 500])
    /\ UNCHANGED <<users, nextUserId, history, likes, tokens, sync, disk, faults>>

\* SELECT username, avatar FROM users WHERE id = $1, then the response.
CommentUser(p) ==
    /\ p \in 1..Len(reqs)
    /\ reqs[p].op = "comment" /\ reqs[p].pc = "user"
    /\ reqs' = [reqs EXCEPT ![p].pc = "done",
                   ![p].status = IF UserExists(reqs[p].userId) THEN 200 ELSE 500]
    /\ UNCHANGED <<users, nextUserId, history, comments, nextCommentId, likes,
                   tokens, sync, disk, faults>>

\* A unique constraint on the comment alone, met by another user's row only.
LikeConflictOtherUser(cid, uid) ==
    \E l \in likes : l.comment_id = cid /\ l.user_id # uid

\* A unique constraint that never reports a conflict.
LikeConflictNever(cid, uid) == FALSE

\* UNIQUE(comment_id, user_id) with ON CONFLICT DO NOTHING: the insert is
\* dropped when the pair is there.
LikeConflict(cid, uid) ==
    \E l \in likes : l.comment_id = cid /\ l.user_id = uid

\* SELECT COUNT(*) FROM comment_likes WHERE comment_id = $1
CountLikes(cid) == Cardinality({l \in likes : l.comment_id = cid})

\* Another user's like statement on the comment ran: every like request of
\* the comment by a different user is marked (foreign is not program state).
MarkForeign(rs, cid, uid) ==
    [q \in 1..Len(rs) |->
       IF rs[q].op = "like" /\ rs[q].commentId = cid /\ rs[q].userId # uid
       THEN [rs[q] EXCEPT !.foreign = TRUE]
       ELSE rs[q]]

\* The request arrives and INSERT INTO comment_likes ... ON CONFLICT DO
\* NOTHING runs.  A comment or user that does not exist violates the
\* foreign key: status 500.  added and by are not program state: whether
\* the statement stored a row, and which request stored a row.
LikeInsert(auth, cid) ==
    /\ NumReqs({"like"}) < MaxLikes
    /\ auth \in Identities
    /\ LET p == Len(reqs) + 1
           uid == Acting(auth)
           r == [op |-> "like", pc |-> "update",
                 userId |-> uid, commentId |-> cid, added |-> FALSE,
                 ret |-> 0, status |-> 0, foreign |-> FALSE,
                 seen |-> {q \in 1..Len(reqs) :
                             reqs[q].op = "like" /\ reqs[q].pc = "done"}]
       IN IF ~(CommentExists(cid) /\ UserExists(uid))
          THEN /\ likes' = likes
               /\ reqs' = Append(reqs, [r EXCEPT !.pc = "done", !.status = 500])
          ELSE IF LikeConflict(cid, uid)
          THEN /\ likes' = likes
               /\ reqs' = Append(MarkForeign(reqs, cid, uid), r)
          ELSE /\ likes' = likes \cup
                     {[comment_id |-> cid, user_id |-> uid, by |-> p]}
               /\ reqs' = Append(MarkForeign(reqs, cid, uid),
                                 [r EXCEPT !.added = TRUE])
    /\ UNCHANGED <<users, nextUserId, history, comments, nextCommentId,
                   tokens, sync, disk, faults>>

\* UPDATE comments SET likes = (SELECT COUNT(*) FROM comment_likes WHERE
\* comment_id = $1) WHERE id = $1
LikeUpdate(p) ==
    /\ p \in 1..Len(reqs)
    /\ reqs[p].op = "like" /\ reqs[p].pc = "update"
    /\ comments' = { IF c.id = reqs[p].commentId
                     THEN [c EXCEPT !.likes = CountLikes(c.id)]
                     ELSE c : c \in comments }
    /\ reqs' = [MarkForeign(reqs, reqs[p].commentId, reqs[p].userId)
                   EXCEPT ![p].pc = "select"]
    /\ UNCHANGED <<users, nextUserId, history, nextCommentId, likes,
                   tokens, sync, disk, faults>>

\* SELECT likes FROM comments WHERE id = $1, then res.json({ likes }).
LikeSelect(p) ==
    /\ p \in 1..Len(reqs)
    /\ reqs[p].op = "like" /\ reqs[p].pc = "select"
    /\ IF CommentExists(reqs[p].commentId)
       THEN \E c \in comments :
              /\ c.id = reqs[p].commentId
              /\ reqs' = [reqs EXCEPT ![p].pc = "done", ![p].status = 200,
                                      ![p].ret = c.likes]
       ELSE reqs' = [reqs EXCEPT ![p].pc = "done", ![p].status = 500]
    /\ UNCHANGED <<users, nextUserId, history, comments, nextCommentId, likes,
                   tokens, sync, disk, faults>>

----------------------------------------------------------------------------
(* POST /api/spotify/sync. *)

\* One item of getRecentlyPlayedTracks: played_at, track.name,
\* track.artists[0]?.name (<<>> when the track has no artist),
\* track.duration_ms.
Item(ts, track, artist, ms) ==
    [ts |-> ts, track |-> track, artist |-> artist, ms |-> ms]

\* track.artists[0]?.name || 'Unknown Artist'
UnknownArtist == <<"?">>
ItemArtist(item) == IF item.artist = <<>> THEN UnknownArtist ELSE item.artist

\* The lists of recently played tracks the Spotify client returns.
SpotifyItems ==
    { <<Item(11, "t1", ArtistQ, 1000)>>,
      <<Item(11, "t1", ArtistQ, 1000), Item(12, "t6", <<>>, 2000)>> }

\* What the Spotify collaborator does: it is connected and answers, it is
\* not connected, or its client throws.
SpotifyOutcomes == {"ok", "disconnected", "error"}

\* The request arrives, the Spotify client is asked, and the first insert
\* is issued: 401 without a session, 400 when Spotify is not connected, 500
\* when the client throws.
SpotifyArrive(auth, outcome, items) ==
    /\ NumReqs({"spotify"}) < MaxSpotify
    /\ auth \in Identities
    /\ LET r == [op |-> "spotify", pc |-> "insert", auth |-> auth,
                 userId |-> auth, items |-> items, n |-> 1, imported |-> 0,
                 status |-> 0,
                 seen |-> {q \in 1..Len(reqs) : reqs[q].pc = "done"}]
       IN reqs' = Append(reqs,
             IF auth = 0 THEN [r EXCEPT !.pc = "done", !.status = 401]
             ELSE IF outcome = "disconnected"
                  THEN [r EXCEPT !.pc = "done", !.status = 400]
             ELSE IF outcome = "error"
                  THEN [r EXCEPT !.pc = "done", !.status = 500]
             ELSE r)
    /\ UNCHANGED <<users, nextUserId, history, comments, nextCommentId, likes,
                   tokens, sync, disk, faults>>

\* The constraints of streaming_history an insert can conflict with: the
\* table has none but its primary key id, which every insert draws from
\* the sequence, so ON CONFLICT DO NOTHING never drops a row.
HistoryConflict(row) == FALSE

\* INSERT INTO streaming_history ... ON CONFLICT DO NOTHING for item n, then
\* imported++.  A storage error throws to the catch: status 500.
SpotifyInsert(p) ==
    /\ p \in 1..Len(reqs)
    /\ reqs[p].op = "spotify" /\ reqs[p].pc = "insert"
    /\ LET r == reqs[p]
           item == r.items[r.n]
           row == [user_id |-> r.userId, ts |-> item.ts, track |-> item.track,
                   artist |-> ItemArtist(item), ms |-> item.ms,
                   src |-> [kind |-> "spotify", run |-> p, key |-> 0,
                            file |-> r.n],
                   n |-> <<r.n, 1>>]
       IN \/ /\ history' = IF HistoryConflict(row) THEN history
                           ELSE history \cup {row}
             /\ faults' = faults
             /\ reqs' = [reqs EXCEPT ![p].imported = @ + 1, ![p].n = @ + 1,
                            ![p].pc = IF r.n = Len(r.items) THEN "mark"
                                      ELSE "insert"]
          \/ /\ faults < MaxFaults
             /\ faults' = faults + 1
             /\ history' = history
             /\ reqs' = [reqs EXCEPT ![p].pc = "done", ![p].status = 500]
    /\ UNCHANGED <<users, nextUserId, comments, nextCommentId, likes,
                   tokens, sync, disk>>

\* UPDATE users SET spotify_connected = TRUE WHERE id = $1, then
\* res.json({ success: true, imported }).
SpotifyMark(p) ==
    /\ p \in 1..Len(reqs)
    /\ reqs[p].op = "spotify" /\ reqs[p].pc = "mark"
    /\ users' = { IF u.id = reqs[p].userId
                  THEN [u EXCEPT !.spotify_connected = TRUE]
                  ELSE u : u \in users }
    /\ reqs' = [reqs EXCEPT ![p].pc = "done", ![p].status = 200]
    /\ UNCHANGED <<nextUserId, history, comments, nextCommentId, likes,
                   tokens, sync, disk, faults>>

----------------------------------------------------------------------------
(* The auth handlers and GET /api/users/search. *)

\* The passwords clients send; "" stands for no password field as well.
Passwords == {"", "abc", "abcd", "wxyz"}

\* password.length
PasswordLength(pw) ==
    CASE pw = "" -> 0 [] pw = "abc" -> 3 [] pw = "abcd" -> 4 [] pw = "wxyz" -> 4

\* bcrypt.hash(password, 10): a string that is not the password.
Hash(pw) ==
    CASE pw = "" -> "$" [] pw = "abc" -> "$abc" [] pw = "abcd" -> "$abcd"
      [] pw = "wxyz" -> "$wxyz"

\* bcrypt.compare(password, hash)
Compare(pw, hash) == hash = Hash(pw)

\* The requests received so far from the auth and search handlers.
NumCalls ==
    NumReqs({"signup", "login", "setPassword", "logout", "me", "search"})

\* A display name with a leading blank.
NamePadded == <<" ", "x", "y">>

\* POST /api/auth/signup arrives: the username check, then SELECT id FROM
\* users WHERE username ILIKE $1 with the trimmed name.
SignupLookup(name, pw) ==
    /\ NumCalls < MaxCalls
    /\ LET r == [op |-> "signup", pc |-> "insert", name |-> Trim(name),
                 password |-> pw, user |-> 0, status |-> 0]
       IN reqs' = Append(reqs,
             IF name = <<>> \/ Len(Trim(name)) < 2
             THEN [r EXCEPT !.pc = "done", !.status = 400]
             ELSE IF UsersLike(Trim(name)) # {}
             THEN [r EXCEPT !.pc = "done", !.status = 400]
             ELSE r)
    /\ UNCHANGED <<users, nextUserId, history, comments, nextCommentId, likes,
                   tokens, sync, disk, faults>>

\* INSERT INTO users (username, password_hash, avatar) ... RETURNING, then
\* the session token.  A unique violation throws to the catch: status 500.
SignupInsert(p) ==
    /\ p \in 1..Len(reqs)
    /\ reqs[p].op = "signup" /\ reqs[p].pc = "insert"
    /\ nextUserId' = nextUserId + 1
    /\ IF UsernameTaken(reqs[p].name)
       THEN /\ users' = users
            /\ tokens' = tokens
            /\ reqs' = [reqs EXCEPT ![p].pc = "done", ![p].status = 500]
       ELSE /\ users' = users \cup
                  {UserRow(nextUserId, reqs[p].name,
                           IF reqs[p].password = "" THEN NULL
                           ELSE Hash(reqs[p].password))}
            /\ tokens' = tokens \cup {nextUserId}
            /\ reqs' = [reqs EXCEPT ![p].pc = "done", ![p].status = 200,
                                    ![p].user = nextUserId]
    /\ UNCHANGED <<history, comments, nextCommentId, likes, sync, disk, faults>>

\* POST /api/auth/login: SELECT * FROM users WHERE username ILIKE $1, the
\* password check when the row has a hash, then the session token.
\* result.rows[0] is any of the matching rows.
Login(name, pw) ==
    /\ NumCalls < MaxCalls
    /\ LET r == [op |-> "login", pc |-> "done", name |-> name,
                 password |-> pw, user |-> 0, status |-> 401]
       IN IF UsersLike(name) = {}
          THEN reqs' = Append(reqs, r) /\ tokens' = tokens
          ELSE \E u \in UsersLike(name) :
                 IF u.password_hash # NULL
                    /\ (pw = "" \/ ~Compare(pw, u.password_hash))
                 THEN reqs' = Append(reqs, r) /\ tokens' = tokens
                 ELSE /\ reqs' = Append(reqs, [r EXCEPT !.status = 200,
                                                       !.user = u.id])
                      /\ tokens' = tokens \cup {u.id}
    /\ UNCHANGED <<users, nextUserId, history, comments, nextCommentId, likes,
                   sync, disk, faults>>

\* A set-password that also clears the user's history.
SetPasswordAndReset(auth, pw) ==
    /\ NumCalls < MaxCalls
    /\ auth \in Identities
    /\ reqs' = Append(reqs, [op |-> "setPassword", pc |-> "done",
                             user |-> auth, password |-> pw, status |-> 200])
    /\ history' = {h \in history : h.user_id # Acting(auth)}
    /\ UNCHANGED <<users, nextUserId, comments, nextCommentId, likes, tokens,
                   sync, disk, faults>>

\* POST /api/auth/set-password: 401 without a session, 400 for a password
\* shorter than 4, else UPDATE users SET password_hash = $1 WHERE id = $2.
SetPassword(auth, pw) ==
    /\ NumCalls < MaxCalls
    /\ auth \in Identities
    /\ LET r == [op |-> "setPassword", pc |-> "done", user |-> auth,
                 password |-> pw, status |-> 200]
       IN IF auth = 0
          THEN reqs' = Append(reqs, [r EXCEPT !.status = 401]) /\ users' = users
          ELSE IF pw = "" \/ PasswordLength(pw) < 4
          THEN reqs' = Append(reqs, [r EXCEPT !.status = 400]) /\ users' = users
          ELSE /\ reqs' = Append(reqs, r)
               /\ users' = { IF u.id = auth
                             THEN [u EXCEPT !.password_hash = Hash(pw)]
                             ELSE u : u \in users }
    /\ UNCHANGED <<nextUserId, history, comments, nextCommentId, likes, tokens,
                   sync, disk, faults>>

\* POST /api/auth/logout: the cookie is cleared at the client; the token
\* stays valid, the server keeps no session.
Logout(auth) ==
    /\ NumCalls < MaxCalls
    /\ auth \in Identities
    /\ reqs' = Append(reqs, [op |-> "logout", pc |-> "done", user |-> auth,
                             status |-> 200])
    /\ UNCHANGED <<users, nextUserId, history, comments, nextCommentId, likes,
                   tokens, sync, disk, faults>>

\* GET /api/auth/me: user null without a session or without the row.
Me(auth) ==
    /\ NumCalls < MaxCalls
    /\ auth \in Identities
    /\ reqs' = Append(reqs, [op |-> "me", pc |-> "done",
                             user |-> IF UserExists(auth) THEN auth ELSE 0,
                             status |-> 200])
    /\ UNCHANGED <<users, nextUserId, history, comments, nextCommentId, likes,
                   tokens, sync, disk, faults>>

\* LIMIT 10 of the search query.
SEARCH_LIMIT == 10

\* The query strings of a search.
SearchQueries == {<<"b">>, <<"_">>}

\* GET /api/users/search: SELECT id, username, avatar FROM users WHERE
\* username ILIKE '%q%' LIMIT 10; without ORDER BY any 10 of the matches.
Search(q) ==
    /\ NumCalls < MaxCalls
    /\ LET match == {u.id : u \in UsersLike(<<"%">> \o q \o <<"%">>)}
       IN \E found \in SUBSET match :
            /\ Cardinality(found) = Min(SEARCH_LIMIT, Cardinality(match))
            /\ reqs' = Append(reqs, [op |-> "search", pc |-> "done", q |-> q,
                                     found |-> found, status |-> 200])
    /\ UNCHANGED <<users, nextUserId, history, comments, nextCommentId, likes,
                   tokens, sync, disk, faults>>

----------------------------------------------------------------------------
(* Specifications. *)

\* The database initDb creates: every table empty, every sequence at 1.
InitDb(d) ==
    /\ users = {}
    /\ nextUserId = 1
    /\ history = {}
    /\ comments = {}
    /\ nextCommentId = 1
    /\ likes = {}
    /\ tokens = {}
    /\ reqs = <<>>
    /\ sync = IdleSync
    /\ disk = d
    /\ faults = 0

Init == \E d \in Disks : InitDb(d)

\* Uploads that run concurrently, without the sync.
NextUpload ==
    \/ \E name \in UploadNames, files \in UploadFiles : UploadLookup(name, files)
    \/ \E p \in 1..Len(reqs) : UploadInsertUser(p)
    \/ \E p \in 1..Len(reqs) : UploadBatch(p)

SpecUpload == InitDb(<<>>) /\ [][NextUpload]_vars

\* The startup bulk sync, run up to MaxSyncRuns times, beside one upload.
NextSync ==
    \/ /\ \A q \in 1..Len(reqs) : reqs[q].op # "upload"
       /\ \E name \in UploadNames, files \in UploadFiles :
            UploadLookup(name, files)
    \/ \E p \in 1..Len(reqs) : UploadInsertUser(p)
    \/ \E p \in 1..Len(reqs) : UploadBatch(p)
    \/ SyncStart
    \/ SyncLookup
    \/ SyncInsertUser
    \/ SyncCount
    \/ SyncBatch

SpecSync == Init /\ [][NextSync]_vars

\* A database that three uploads have filled: three users, each with the
\* valid records of one file.
LoadedSrc(n) == [kind |-> "upload", run |-> 0, key |-> 0, file |-> n]
InitLoaded ==
    /\ users = {UserRow(1, NameLower, NULL), UserRow(2, NameOther, NULL),
                UserRow(3, <<"e", "f">>, NULL)}
    /\ nextUserId = 4
    /\ history = Rows(1, ValidRecords(FLong.data), LoadedSrc(1), 1)
                  \cup Rows(2, ValidRecords(FNova.data), LoadedSrc(2), 1)
                  \cup Rows(3, ValidRecords(FOne.data), LoadedSrc(3), 1)
    /\ comments = {}
    /\ nextCommentId = 1
    /\ likes = {}
    /\ tokens = {}
    /\ reqs = <<>>
    /\ sync = [IdleSync EXCEPT !.pc = "done", !.run = MaxSyncRuns]
    /\ disk = <<>>
    /\ faults = 0

\* One upload beside the profile and artist pages.
NextRead ==
    \/ /\ \A q \in 1..Len(reqs) : reqs[q].op # "upload"
       /\ \E name \in UploadNames, files \in UploadFiles :
            UploadLookup(name, files)
    \/ \E p \in 1..Len(reqs) : UploadInsertUser(p)
    \/ \E p \in 1..Len(reqs) : UploadBatch(p)
    \/ \E auth \in Identities, artist \in ArtistParams : ArtistBoard(auth, artist)
    \/ \E p \in 1..Len(reqs) : ArtistCommentsQuery(p)
    \/ \E param \in ProfileParams : ProfileUser(param)
    \/ \E p \in 1..Len(reqs) : ProfileStats(p)
    \/ \E p \in 1..Len(reqs) : ProfileTopArtists(p)
    \/ \E p \in 1..Len(reqs) : ProfileTopSongs(p)

SpecRead == InitLoaded /\ [][NextRead]_vars

\* A database with two users who hold session tokens.
InitSocial ==
    /\ users = {UserRow(1, NameLower, NULL), UserRow(2, NameOther, NULL)}
    /\ nextUserId = 3
    /\ history = {}
    /\ comments = {}
    /\ nextCommentId = 1
    /\ likes = {}
    /\ tokens = {1, 2}
    /\ reqs = <<>>
    /\ sync = [IdleSync EXCEPT !.pc = "done", !.run = MaxSyncRuns]
    /\ disk = <<>>
    /\ faults = 0

\* Comments and likes from clients with and without a session.
NextSocial ==
    \/ \E auth \in Identities, content \in CommentContents :
          CommentInsert(auth, ArtistQ, content)
    \/ \E p \in 1..Len(reqs) : CommentUser(p)
    \/ \E auth \in Identities, cid \in 1..nextCommentId : LikeInsert(auth, cid)
    \/ \E p \in 1..Len(reqs) : LikeUpdate(p)
    \/ \E p \in 1..Len(reqs) : LikeSelect(p)

SpecSocial == InitSocial /\ [][NextSocial]_vars

\* Spotify syncs.
NextSpotify ==
    \/ \E auth \in Identities, outcome \in SpotifyOutcomes, items \in SpotifyItems :
          SpotifyArrive(auth, outcome, items)
    \/ \E p \in 1..Len(reqs) : SpotifyInsert(p)
    \/ \E p \in 1..Len(reqs) : SpotifyMark(p)

SpecSpotify == InitSocial /\ [][NextSpotify]_vars

\* Uploads of two file lists under two display names that differ in case.
NextReupload ==
    \/ \E name \in {NameLower, NameUpper},
          files \in {<<FLong>>, <<FBad, FNone, FTwice>>} :
          UploadLookup(name, files)
    \/ \E p \in 1..Len(reqs) : UploadInsertUser(p)
    \/ \E p \in 1..Len(reqs) : UploadBatch(p)

SpecReupload == InitDb(<<>>) /\ [][NextReupload]_vars

\* A directory with one file of a name no user has.
DiskNew == << [user |-> NameNew, content |-> FOne] >>

\* The loaded database with a session of user 2, before a start of the
\* process that finds a new file in the directory.
InitApi ==
    /\ users = {UserRow(1, NameLower, NULL), UserRow(2, NameOther, NULL),
                UserRow(3, <<"e", "f">>, NULL)}
    /\ nextUserId = 4
    /\ history = Rows(1, ValidRecords(FLong.data), LoadedSrc(1), 1)
                  \cup Rows(2, ValidRecords(FNova.data), LoadedSrc(2), 1)
                  \cup Rows(3, ValidRecords(FOne.data), LoadedSrc(3), 1)
    /\ comments = {}
    /\ nextCommentId = 1
    /\ likes = {}
    /\ tokens = {2}
    /\ reqs = <<>>
    /\ sync = [IdleSync EXCEPT !.pc = "done", !.run = MaxSyncRuns - 1]
    /\ disk = DiskNew
    /\ faults = 0

\* A request of any handler arrives; MaxRequests requests in all.
ApiArrival ==
    /\ Len(reqs) < MaxRequests
    /\ \/ UploadLookup(NameNew, <<FNova>>)
       \/ ArtistBoard(0, ArtistQ)
       \/ ProfileUser([kind |-> "id", id |-> 2, name |-> <<>>])
       \/ CommentInsert(0, ArtistQ, "hi")
       \/ \E auth \in Identities : LikeInsert(auth, 1)
       \/ \E auth \in tokens :
             SpotifyArrive(auth, "ok", <<Item(11, "t1", ArtistQ, 1000)>>)
       \/ SignupLookup(NamePadded, "abcd")
       \/ Login(NamePattern, "")
       \/ \E auth \in tokens : SetPassword(auth, "abcd")
       \/ Logout(0)
       \/ Me(0)
       \/ Search(<<"b">>)

\* Every handler and the sync.
NextApi ==
    \/ ApiArrival
    \/ \E p \in 1..Len(reqs) : UploadInsertUser(p)
    \/ \E p \in 1..Len(reqs) : UploadBatch(p)
    \/ SyncStart
    \/ SyncLookup
    \/ SyncInsertUser
    \/ SyncCount
    \/ SyncBatch
    \/ \E p \in 1..Len(reqs) : ArtistCommentsQuery(p)
    \/ \E p \in 1..Len(reqs) : ProfileStats(p)
    \/ \E p \in 1..Len(reqs) : ProfileTopArtists(p)
    \/ \E p \in 1..Len(reqs) : ProfileTopSongs(p)
    \/ \E p \in 1..Len(reqs) : CommentUser(p)
    \/ \E p \in 1..Len(reqs) : LikeUpdate(p)
    \/ \E p \in 1..Len(reqs) : LikeSelect(p)
    \/ \E p \in 1..Len(reqs) : SpotifyInsert(p)
    \/ \E p \in 1..Len(reqs) : SpotifyMark(p)
    \/ \E p \in 1..Len(reqs) : SignupInsert(p)

SpecApi == InitApi /\ [][NextApi]_vars

\* A database with a user without a password and a user with one, who
\* holds a session token.
InitAuth ==
    /\ users = {UserRow(1, NameLower, NULL),
                UserRow(2, NameOther, Hash("abcd"))}
    /\ nextUserId = 3
    /\ history = {}
    /\ comments = {}
    /\ nextCommentId = 1
    /\ likes = {}
    /\ tokens = {2}
    /\ reqs = <<>>
    /\ sync = [IdleSync EXCEPT !.pc = "done", !.run = MaxSyncRuns]
    /\ disk = <<>>
    /\ faults = 0

\* The names and passwords the clients of the auth handlers send.
SignupNames == {NamePadded, NameUpper, NameShort, <<>>}
LoginNames == {NameLower, NameOther, NameNew, NamePattern}

\* Signups, logins and password changes that run concurrently.
NextAuth ==
    \/ \E name \in SignupNames, pw \in {"", "abcd"} : SignupLookup(name, pw)
    \/ \E p \in 1..Len(reqs) : SignupInsert(p)
    \/ \E name \in LoginNames, pw \in Passwords : Login(name, pw)
    \/ \E cookie \in Cookies, pw \in Passwords :
          SetPassword(AuthMiddleware(cookie), pw)

SpecAuth == InitAuth /\ [][NextAuth]_vars

\* A database in which the user with id 1 holds no session token: only
\* user 2 has one.
InitDemo ==
    /\ users = {UserRow(1, NameLower, NULL), UserRow(2, NameOther, NULL)}
    /\ nextUserId = 3
    /\ history = {}
    /\ comments = {}
    /\ nextCommentId = 1
    /\ likes = {}
    /\ tokens = {2}
    /\ reqs = <<>>
    /\ sync = [IdleSync EXCEPT !.pc = "done", !.run = MaxSyncRuns]
    /\ disk = <<>>
    /\ faults = 0

\* Comments and likes from clients with a valid token, with a token that
\* jwt.verify rejects, and without a token.
NextDemo ==
    \/ \E cookie \in Cookies, content \in CommentContents :
          CommentInsert(AuthMiddleware(cookie), ArtistQ, content)
    \/ \E p \in 1..Len(reqs) : CommentUser(p)
    \/ \E cookie \in Cookies, cid \in 1..nextCommentId :
          LikeInsert(AuthMiddleware(cookie), cid)
    \/ \E p \in 1..Len(reqs) : LikeUpdate(p)
    \/ \E p \in 1..Len(reqs) : LikeSelect(p)

SpecDemo == InitDemo /\ [][NextDemo]_vars

----------------------------------------------------------------------------
(* Properties of the ingestion paths. *)

\* File j of upload p was read, filtered and inserted without an error.
UploadFileOk(p, j) ==
    /\ reqs[p].op = "upload"
    /\ j \in 1..Len(reqs[p].files)
    /\ j < reqs[p].f
    /\ Readable(reqs[p].files[j])
    /\ \A m \in 1..Len(reqs[p].issued) :
          reqs[p].issued[m].f = j => reqs[p].issued[m].ok

\* File j of the name at position k was read, filtered and inserted without
\* an error by the current run of the sync.
SyncFileOk(k, j) ==
    /\ \E e \in sync.entered : e.key = k
    /\ j \in 1..Len(SyncFiles(disk, sync.keys[k]))
    /\ k < sync.k \/ (k = sync.k /\ j < sync.f)
    /\ Readable(SyncFiles(disk, sync.keys[k])[j])
    /\ \A m \in 1..Len(sync.issued) :
          (sync.issued[m].key = k /\ sync.issued[m].f = j) => sync.issued[m].ok

\* Entry e of a file is a row of streaming_history for user uid, inserted
\* by the statement source src.
Persisted(uid, src, e) ==
    \E h \in history :
       /\ h.user_id = uid /\ h.src = src /\ h.ts = e.ts
       /\ h.track = e.track /\ h.artist = e.artist /\ h.ms = e.ms

\* Every entry of data is a row iff its track name is non-empty and its
\* duration positive.
PersistedIffValid(uid, src, data) ==
    \A n \in 1..Len(data) :
       IF data[n].track # NULL /\ data[n].track # "" /\ data[n].ms > 0
       THEN Persisted(uid, src, data[n])
       ELSE ~ \E h \in history : h.src = src /\ h.ts = data[n].ts

UploadSrc(p, j) == [kind |-> "upload", run |-> p, key |-> 0, file |-> j]
SyncSrc(k, j) == [kind |-> "sync", run |-> sync.run, key |-> k, file |-> j]

\* C1: in upload and in bulk sync, a record of a file that was parsed and
\* inserted without error is a persisted StreamEvent if and only if its
\* track name is non-empty and its ms_played is greater than 0.
C1_PersistedIffValid ==
    /\ \A p \in 1..Len(reqs) :
         reqs[p].op = "upload" =>
           \A j \in 1..Len(reqs[p].files) :
              UploadFileOk(p, j) =>
                PersistedIffValid(reqs[p].userId, UploadSrc(p, j),
                                  reqs[p].files[j].data)
    /\ \A e \in sync.entered :
         \A j \in 1..Len(SyncFiles(disk, sync.keys[e.key])) :
            SyncFileOk(e.key, j) =>
              PersistedIffValid(e.user, SyncSrc(e.key, j),
                                SyncFiles(disk, sync.keys[e.key])[j].data)

\* A file holds both a valid and an invalid entry.
Mixed(data) ==
    /\ \E n \in 1..Len(data) : IsValid(data[n])
    /\ \E n \in 1..Len(data) : ~IsValid(data[n])

\* C1 witness: an upload and the sync have each finished a file that holds
\* valid and invalid entries.
C1_Witness ==
    /\ \E p \in 1..Len(reqs) :
         /\ reqs[p].op = "upload"
         /\ \E j \in 1..Len(reqs[p].files) :
              UploadFileOk(p, j) /\ Mixed(reqs[p].files[j].data)
    /\ \E e \in sync.entered :
         \E j \in 1..Len(SyncFiles(disk, sync.keys[e.key])) :
            /\ SyncFileOk(e.key, j)
            /\ Mixed(SyncFiles(disk, sync.keys[e.key])[j].data)

\* The rows the sync inserted.
SyncRows == {h \in history : h.src.kind = "sync"}

\* C2: once a run of the bulk sync has found a user to have persisted
\* events it inserts no event for that user, and no user receives events
\* from two different runs of the sync.
C2_SyncSkipsUsersWithData ==
    /\ \A sk \in sync.skipped :
         \A h \in SyncRows :
            (h.src.run = sync.run /\ h.user_id = sk.user) => h.src.key < sk.key
    /\ \A h1, h2 \in SyncRows :
         h1.user_id = h2.user_id => h1.src.run = h2.src.run

\* C2 witness: the second run has skipped a user who holds events of the
\* first run.
C2_Witness ==
    /\ sync.run = 2
    /\ \E sk \in sync.skipped :
         \E h \in SyncRows : h.user_id = sk.user /\ h.src.run = 1

\* The batches of the statements a run issued for file f of name k.
BatchesOf(issued, k, j) ==
    LET OfFile(e) == e.key = k /\ e.f = j
        sel == SelectSeq(issued, OfFile)
    IN [m \in 1..Len(sel) |-> sel[m].batch]

RECURSIVE Flatten(_)
Flatten(bs) == IF bs = <<>> THEN <<>> ELSE Head(bs) \o Flatten(Tail(bs))

\* bs partitions valid into ceil(N / BATCH_SIZE) batches in input order,
\* all of BATCH_SIZE records except possibly the last.
IsPartition(bs, valid) ==
    /\ Len(bs) = (Len(valid) + BATCH_SIZE - 1) \div BATCH_SIZE
    /\ Flatten(bs) = valid
    /\ \A m \in 1..Len(bs) :
         /\ m < Len(bs) => Len(bs[m]) = BATCH_SIZE
         /\ Len(bs[m]) \in 1..BATCH_SIZE

\* C3: for a file with N valid records that is inserted without error,
\* exactly ceil(N / BATCH_SIZE) insert statements are issued; their batches
\* concatenated in issue order are the validated sequence, and every batch
\* but the last holds BATCH_SIZE records.
C3_BatchPartition ==
    /\ \A p \in 1..Len(reqs) :
         reqs[p].op = "upload" =>
           \A j \in 1..Len(reqs[p].files) :
              UploadFileOk(p, j) =>
                IsPartition(BatchesOf(reqs[p].issued, 0, j),
                            ValidRecords(reqs[p].files[j].data))
    /\ \A e \in sync.entered :
         \A j \in 1..Len(SyncFiles(disk, sync.keys[e.key])) :
            SyncFileOk(e.key, j) =>
              IsPartition(BatchesOf(sync.issued, e.key, j),
                  ValidRecords(SyncFiles(disk, sync.keys[e.key])[j].data))

\* C3 witness: an upload has finished a file in several batches, the last
\* one short, and the sync has finished a file without a valid record.
C3_Witness ==
    /\ \E p \in 1..Len(reqs) :
         /\ reqs[p].op = "upload"
         /\ \E j \in 1..Len(reqs[p].files) :
              /\ UploadFileOk(p, j)
              /\ Len(BatchesOf(reqs[p].issued, 0, j)) >= 2
              /\ Len(ValidRecords(reqs[p].files[j].data)) % BATCH_SIZE # 0
    /\ \E e \in sync.entered :
         \E j \in 1..Len(SyncFiles(disk, sync.keys[e.key])) :
            /\ SyncFileOk(e.key, j)
            /\ ValidRecords(SyncFiles(disk, sync.keys[e.key])[j].data) = <<>>

\* C8 as claimed: in both ingestion modes, when a user's name equals the
\* requested name ignoring case the resolver returns that user and inserts
\* no row, and it inserts a user only when there is no such user.
C8_CaseInsensitiveResolver ==
    /\ \A p \in 1..Len(reqs) :
         (reqs[p].op = "upload" /\ reqs[p].ciMatch # {}) =>
            /\ reqs[p].pc # "insertUser"
            /\ ~reqs[p].created
            /\ reqs[p].userId \in {u.id : u \in reqs[p].ciMatch}
    /\ sync.ciMatch # {} =>
         /\ sync.pc # "insertUser"
         /\ ~sync.created
         /\ sync.userId \in {u.id : u \in sync.ciMatch}

\* C10 as claimed: no upload ends in an error of its user resolution.
C10_NoResolutionError ==
    \A p \in 1..Len(reqs) : reqs[p].op = "upload" => reqs[p].status # 500

----------------------------------------------------------------------------
(* Properties of the aggregation queries. *)

\* The position of user uid on a leaderboard, 0 when the user is not on it.
RankOf(board, uid) ==
    IF \E n \in 1..Len(board) : board[n].userId = uid
    THEN CHOOSE n \in 1..Len(board) : board[n].userId = uid
    ELSE 0

\* C6: on the leaderboard of an artist, a user whose summed ms_played over
\* the events of that artist is larger than another user's has the strictly
\* smaller rank, and the other user is never listed without the first.
C6_LeaderboardOrder ==
    \A p \in 1..Len(reqs) :
       reqs[p].op = "artist" =>
         \A u1, u2 \in {h.user_id : h \in reqs[p].snap} :
            LET e1 == ArtistRows(reqs[p].snap, u1, reqs[p].artist)
                e2 == ArtistRows(reqs[p].snap, u2, reqs[p].artist)
                r1 == RankOf(reqs[p].board, u1)
                r2 == RankOf(reqs[p].board, u2)
            IN (e1 # {} /\ e2 # {} /\ SumMs(e1) > SumMs(e2)) =>
                  /\ r2 # 0 => r1 # 0
                  /\ (r1 # 0 /\ r2 # 0) => r1 < r2
                  /\ \A n \in 1..Len(reqs[p].board) : reqs[p].board[n].rank = n

\* C6 witness: a leaderboard lists two users with different sums and leaves
\* out a third user with a smaller sum.
C6_Witness ==
    \E p \in 1..Len(reqs) :
       /\ reqs[p].op = "artist" /\ reqs[p].pc = "done"
       /\ Len(reqs[p].board) >= 2
       /\ \E u1, u2, u3 \in {h.user_id : h \in reqs[p].snap} :
            /\ RankOf(reqs[p].board, u1) = 1
            /\ RankOf(reqs[p].board, u2) = 2
            /\ RankOf(reqs[p].board, u3) = 0
            /\ SumMs(ArtistRows(reqs[p].snap, u1, reqs[p].artist))
                 > SumMs(ArtistRows(reqs[p].snap, u2, reqs[p].artist))
            /\ ArtistRows(reqs[p].snap, u3, reqs[p].artist) # {}
            /\ SumMs(ArtistRows(reqs[p].snap, u2, reqs[p].artist))
                 > SumMs(ArtistRows(reqs[p].snap, u3, reqs[p].artist))

\* The sum of ms_played over a sequence of entries.
RECURSIVE SumEntries(_)
SumEntries(es) == IF es = <<>> THEN 0 ELSE Head(es).ms + SumEntries(Tail(es))

\* Upload p of one file created its user for a name no user matched, ran
\* without an error, and profile request q for that name arrived after its
\* answer, no other rows having been stored for the user.
UploadThenProfile(p, q) ==
    /\ reqs[p].op = "upload" /\ reqs[p].status = 200
    /\ Len(reqs[p].files) = 1 /\ Readable(reqs[p].files[1])
    /\ reqs[p].created /\ reqs[p].likeMatch = {}
    /\ \A m \in 1..Len(reqs[p].issued) : reqs[p].issued[m].ok
    /\ reqs[q].op = "profile" /\ reqs[q].status = 200
    /\ reqs[q].param.kind = "name" /\ reqs[q].param.name = reqs[p].name
    /\ p \in reqs[q].seen
    /\ \A h \in history : h.user_id = reqs[p].userId => h.src = UploadSrc(p, 1)

----------------------------------------------------------------------------
(* Properties of likes and of the Spotify sync. *)

\* C4 as claimed: at every state, every comment's stored like count is the
\* number of comment_likes rows that reference the comment.
C4_LikesEqualRows ==
    \A c \in comments : c.likes = CountLikes(c.id)

\* Like request q was answered before like request p of the same user on
\* the same comment arrived, and no other user's like statement on the
\* comment has run since q arrived.
SecondLike(q, p) ==
    /\ reqs[q].op = "like" /\ reqs[q].status = 200
    /\ reqs[p].op = "like" /\ reqs[p].status = 200
    /\ reqs[p].userId = reqs[q].userId
    /\ reqs[p].commentId = reqs[q].commentId
    /\ q \in reqs[p].seen
    /\ ~reqs[q].foreign

\* C5: when a user likes a comment a second time with no other user's like
\* in between, the second request stores no comment_likes row and returns
\* the like count the first request returned.
C5_SecondLikeChangesNothing ==
    \A p, q \in 1..Len(reqs) :
       SecondLike(q, p) =>
          /\ ~reqs[p].added
          /\ reqs[p].ret = reqs[q].ret
          /\ Cardinality({l \in likes : /\ l.comment_id = reqs[p].commentId
                                        /\ l.user_id = reqs[p].userId}) = 1

\* C5 witness: the first like stored the row and was answered 1, and the
\* second like of the same user on the comment was answered too.
C5_Witness ==
    \E p, q \in 1..Len(reqs) :
       /\ SecondLike(q, p)
       /\ reqs[q].added
       /\ reqs[q].ret = 1

\* The Spotify rows of one user that hold the same item.
SameItem(h1, h2) ==
    /\ h1.src.kind = "spotify" /\ h2.src.kind = "spotify"
    /\ h1.user_id = h2.user_id /\ h1.ts = h2.ts /\ h1.track = h2.track
    /\ h1.artist = h2.artist /\ h1.ms = h2.ms

\* C9 as claimed: a Spotify sync that follows a sync of the same user with
\* the same items leaves no second row for an item already persisted.
C9_ResyncIgnoresDuplicates ==
    \A p, q \in 1..Len(reqs) :
       (/\ reqs[p].op = "spotify" /\ reqs[p].status = 200
        /\ reqs[q].op = "spotify" /\ reqs[q].status = 200
        /\ reqs[p].userId = reqs[q].userId /\ reqs[p].items = reqs[q].items
        /\ p \in reqs[q].seen) =>
          \A h1, h2 \in history : SameItem(h1, h2) => h1 = h2

----------------------------------------------------------------------------
(* Properties of one ingestion run: an upload request, or the files of one *)
(* name in a run of the sync.  A run is given by its files, the log of the *)
(* statements it issued, the file its loop is at, its user and the source *)
(* its rows carry.                                                         *)

\* The statements of a log that belong to file j, in issue order.
FileLog(log, j) ==
    LET OfFile(e) == e.f = j
    IN SelectSeq(log, OfFile)

\* The statements of the sync's log that belong to the name at position k.
KeyLog(k) ==
    LET OfKey(e) == e.key = k
    IN SelectSeq(sync.issued, OfKey)

\* File i of the run failed: it could not be read or filtered, or one of
\* its inserts met a storage error.
FileFailed(files, log, i) ==
    \/ ~Readable(files[i])
    \/ \E m \in 1..Len(log) : log[m].f = i /\ ~log[m].ok

\* The valid records of file j as the loop computes them; none when the
\* file throws before its first insert.
ValidOf(files, j) ==
    IF Readable(files[j]) THEN ValidRecords(files[j].data) ELSE <<>>

\* The number of records in the statements of a log that succeeded.
RECURSIVE InsertedCount(_)
InsertedCount(log) ==
    IF log = <<>> THEN 0
    ELSE (IF Head(log).ok THEN Len(Head(log).batch) ELSE 0)
         + InsertedCount(Tail(log))

\* The rows of user uid that carry source src.
RowsOf(uid, src) == {h \in history : h.user_id = uid /\ h.src = src}

\* File j is handled as it is when it is the only file: its statements are
\* the batches of its valid records in order, none follows a failed one,
\* once the loop is past the file they reach the last batch unless one
\* failed, and the rows stored for it are those of its successful
\* statements.
AsAlone(files, log, at, uid, src, j) ==
    LET valid == ValidOf(files, j)
        fl == FileLog(log, j)
    IN /\ \A m \in 1..Len(fl) :
            /\ fl[m].batch = SubSeq(valid, (m - 1) * BATCH_SIZE + 1,
                                    Min(m * BATCH_SIZE, Len(valid)))
            /\ m < Len(fl) => fl[m].ok
       /\ j < at =>
            \/ Len(fl) = (Len(valid) + BATCH_SIZE - 1) \div BATCH_SIZE
            \/ Len(fl) >= 1 /\ ~fl[Len(fl)].ok
       /\ Cardinality(RowsOf(uid, [src EXCEPT !.file = j])) = InsertedCount(fl)

\* The uploads whose files loop has started, and the file the loop is at.
Ingesting(p) ==
    /\ reqs[p].op = "upload"
    /\ reqs[p].f >= 1

\* The file the sync's loop is at for the name at position k.
SyncAt(k) ==
    IF k < sync.k THEN Len(SyncFiles(disk, sync.keys[k])) + 1 ELSE sync.f

\* C11: in an upload and in a run of the sync, every file that comes after
\* a file that failed (parse error or storage error) is read, validated and
\* inserted as it is when no file failed before it.
C11_FileIsolation ==
    /\ \A p \in 1..Len(reqs) :
         Ingesting(p) =>
           \A i, j \in 1..Len(reqs[p].files) :
              (i < j /\ j <= reqs[p].f
                 /\ FileFailed(reqs[p].files, reqs[p].issued, i)) =>
                AsAlone(reqs[p].files, reqs[p].issued, reqs[p].f,
                        reqs[p].userId, UploadSrc(p, 0), j)
    /\ \A e \in sync.entered :
         LET files == SyncFiles(disk, sync.keys[e.key])
         IN \A i, j \in 1..Len(files) :
               (i < j /\ j <= SyncAt(e.key)
                  /\ FileFailed(files, KeyLog(e.key), i)) =>
                 AsAlone(files, KeyLog(e.key), SyncAt(e.key), e.user,
                         SyncSrc(e.key, 0), j)

\* C11 witness: an upload stored the rows of a file that came after a file
\* with a parse error, and the sync stored the rows of a file that came
\* after a file whose insert met a storage error.
C11_Witness ==
    /\ \E p \in 1..Len(reqs) :
         /\ Ingesting(p) /\ reqs[p].status = 200
         /\ \E i, j \in 1..Len(reqs[p].files) :
              /\ i < j /\ ~Readable(reqs[p].files[i])
              /\ RowsOf(reqs[p].userId, UploadSrc(p, j)) # {}
              /\ Len(FileLog(reqs[p].issued, j)) >= 2
    /\ \E e \in sync.entered :
         LET files == SyncFiles(disk, sync.keys[e.key])
         IN \E i, j \in 1..Len(files) :
               /\ i < j /\ j < SyncAt(e.key)
               /\ \E m \in 1..Len(sync.issued) :
                     /\ sync.issued[m].key = e.key
                     /\ sync.issued[m].f = i /\ ~sync.issued[m].ok
               /\ RowsOf(e.user, SyncSrc(e.key, j)) # {}

\* The number of valid records in all the files of a run.
RECURSIVE TotalValid(_)
TotalValid(files) ==
    IF files = <<>> THEN 0
    ELSE Len(ValidOf(files, 1)) + TotalValid(Tail(files))

\* The rows whose columns are those of entry e.
SameContent(h, e) ==
    h.ts = e.ts /\ h.track = e.track /\ h.artist = e.artist /\ h.ms = e.ms

\* Every valid record of every file of a run is a row of user uid as often
\* as it occurs in its file, and the run's rows are as many as its valid
\* records.  run is the set of all rows of the run.
ExactlyOnce(files, uid, src, run) ==
    /\ Cardinality(run) = TotalValid(files)
    /\ \A h \in run : h.user_id = uid
    /\ \A j \in 1..Len(files) :
         LET valid == ValidOf(files, j)
         IN \A n \in 1..Len(valid) :
               Cardinality({h \in RowsOf(uid, [src EXCEPT !.file = j]) :
                              SameContent(h, valid[n])})
                 = Cardinality({m \in 1..Len(valid) : valid[m] = valid[n]})

\* No statement of the log met a storage error.
NoStorageError(log) == \A m \in 1..Len(log) : log[m].ok

\* C12: when an upload, or the sync of one name, has run to its end without
\* a storage error, every valid record of every file it processed is
\* persisted exactly once for its user: the rows it added are as many as the
\* valid records, none lost and none stored twice.
C12_ExactlyOnce ==
    /\ \A p \in 1..Len(reqs) :
         (reqs[p].op = "upload" /\ reqs[p].status = 200
            /\ NoStorageError(reqs[p].issued)) =>
           ExactlyOnce(reqs[p].files, reqs[p].userId, UploadSrc(p, 0),
               {h \in history : h.src.kind = "upload" /\ h.src.run = p})
    /\ \A e \in sync.entered :
         (e.key < sync.k /\ NoStorageError(KeyLog(e.key))) =>
           ExactlyOnce(SyncFiles(disk, sync.keys[e.key]), e.user,
               SyncSrc(e.key, 0),
               {h \in history : /\ h.src.kind = "sync"
                                /\ h.src.run = sync.run
                                /\ h.src.key = e.key})

\* C12 witness: an upload has stored, without an error, a file that holds
\* one entry three times over two batches, and the sync has stored two
\* files of one name without an error.
C12_Witness ==
    /\ \E p \in 1..Len(reqs) :
         /\ reqs[p].op = "upload" /\ reqs[p].status = 200
         /\ NoStorageError(reqs[p].issued)
         /\ \E j \in 1..Len(reqs[p].files) :
              /\ reqs[p].files[j] = FTwice
              /\ Cardinality(RowsOf(reqs[p].userId, UploadSrc(p, j))) = 3
    /\ \E e \in sync.entered :
         /\ e.key < sync.k /\ NoStorageError(KeyLog(e.key))
         /\ \E i, j \in 1..Len(SyncFiles(disk, sync.keys[e.key])) :
              /\ i < j
              /\ RowsOf(e.user, SyncSrc(e.key, i)) # {}
              /\ RowsOf(e.user, SyncSrc(e.key, j)) # {}

\* The rows that statement m of upload p stored, if it succeeded.
StatementRows(p, m) ==
    {h \in history : /\ h.src = UploadSrc(p, reqs[p].issued[m].f)
                     /\ h.n[1] = m}

\* C13: when the insert of batch k of an uploaded file has met a storage
\* error, the rows of the file's batches 1..k-1 are persisted, the file has
\* no other row, no statement for the file is issued after the failed one,
\* and the file's statements are its batches 1..k, each issued once.
C13_NoRollbackNoRetry ==
    \A p \in 1..Len(reqs) :
       reqs[p].op = "upload" =>
         \A k \in 1..Len(reqs[p].issued) :
            ~reqs[p].issued[k].ok =>
              LET log == reqs[p].issued
                  j == log[k].f
                  valid == ValidOf(reqs[p].files, j)
                  fl == FileLog(log, j)
                  before == {m \in 1..(k - 1) : log[m].f = j}
              IN /\ \A m \in (k + 1)..Len(log) : log[m].f # j
                 /\ \A m \in 1..Len(fl) :
                       fl[m].batch = SubSeq(valid, (m - 1) * BATCH_SIZE + 1,
                                            Min(m * BATCH_SIZE, Len(valid)))
                 /\ \A m \in before :
                       /\ log[m].ok
                       /\ Cardinality(StatementRows(p, m)) = Len(log[m].batch)
                       /\ \A n \in 1..Len(log[m].batch) :
                             \E h \in StatementRows(p, m) :
                                h.n[2] = n /\ SameContent(h, log[m].batch[n])
                 /\ RowsOf(reqs[p].userId, UploadSrc(p, j))
                      = UNION {StatementRows(p, m) : m \in before}

\* C13 witness: the second batch of a file of three batches failed, the
\* rows of the first batch are there and the upload has been answered.
C13_Witness ==
    \E p \in 1..Len(reqs) :
       /\ reqs[p].op = "upload" /\ reqs[p].status = 200
       /\ \E k \in 2..Len(reqs[p].issued) :
            /\ ~reqs[p].issued[k].ok
            /\ reqs[p].issued[k - 1].f = reqs[p].issued[k].f
            /\ Len(ValidOf(reqs[p].files, reqs[p].issued[k].f))
                 > 2 * BATCH_SIZE
            /\ Cardinality(RowsOf(reqs[p].userId,
                   UploadSrc(p, reqs[p].issued[k].f))) = BATCH_SIZE

\* The rows upload p stored.
UploadRows(p) == {h \in history : h.src.kind = "upload" /\ h.src.run = p}

\* Uploads p and q were sent with the same display name and the same
\* files, and both were answered without a storage error; q arrived after
\* the answer to p.
SameUploadTwice(p, q) ==
    /\ reqs[p].op = "upload" /\ reqs[p].status = 200
    /\ reqs[q].op = "upload" /\ reqs[q].status = 200
    /\ p \in reqs[q].seen
    /\ reqs[p].name = reqs[q].name
    /\ reqs[p].files = reqs[q].files
    /\ NoStorageError(reqs[p].issued) /\ NoStorageError(reqs[q].issued)

\* C14: the second of two uploads of the same files under the same display
\* name goes to the same user, stores as many rows as the first (one per
\* valid record, again) and reports the same recordsImported.
C14_SecondUploadDuplicates ==
    \A p, q \in 1..Len(reqs) :
       SameUploadTwice(p, q) =>
         /\ reqs[q].userId = reqs[p].userId
         /\ reqs[q].total = reqs[p].total
         /\ Cardinality(UploadRows(q)) = Cardinality(UploadRows(p))
         /\ UploadRows(p) \cap UploadRows(q) = {}
         /\ ExactlyOnce(reqs[q].files, reqs[q].userId, UploadSrc(q, 0),
                        UploadRows(q))

\* C14 witness: a file of five valid records was uploaded twice under one
\* name, and the user has ten rows.
C14_Witness ==
    \E p, q \in 1..Len(reqs) :
       /\ SameUploadTwice(p, q)
       /\ reqs[p].total = 5 /\ reqs[q].total = 5
       /\ Cardinality({h \in history : h.user_id = reqs[p].userId}) = 10

\* Upload p has been answered by its handler after at least one of its
\* files was ingested without an error and at least one failed.
PartlyFailed(p) ==
    /\ reqs[p].op = "upload" /\ reqs[p].pc = "done" /\ reqs[p].status # 0
    /\ \E j \in 1..Len(reqs[p].files) : UploadFileOk(p, j)
    /\ \E i \in 1..Len(reqs[p].files) :
          FileFailed(reqs[p].files, reqs[p].issued, i)

\* C15: an upload of which one file was ingested and another failed is
\* answered with success (status 200), and its recordsImported is the
\* number of records of the statements that succeeded, which is the number
\* of rows it stored.
C15_PartialSuccess ==
    \A p \in 1..Len(reqs) :
       PartlyFailed(p) =>
         /\ reqs[p].status = 200
         /\ reqs[p].total = InsertedCount(reqs[p].issued)
         /\ reqs[p].total = Cardinality(UploadRows(p))

\* C15 witness: an upload was answered with a recordsImported above 0 and
\* below the number of valid records of its files.
C15_Witness ==
    \E p \in 1..Len(reqs) :
       /\ PartlyFailed(p)
       /\ \E j \in 1..Len(reqs[p].files) :
            UploadFileOk(p, j) /\ RowsOf(reqs[p].userId, UploadSrc(p, j)) # {}
       /\ reqs[p].total > 0
       /\ reqs[p].total < TotalValid(reqs[p].files)

\* C16 as claimed: validation raises nothing, whatever the entries are:
\* when a file that parsed as JSON has been passed by the loop of an upload
\* and no insert of it met a storage error, every entry of it with a track
\* name and a positive duration is a row.
C16_ValidatorNeverThrows ==
    \A p \in 1..Len(reqs) :
       Ingesting(p) =>
         \A j \in 1..Len(reqs[p].files) :
            (/\ j < reqs[p].f
             /\ reqs[p].files[j].ok
             /\ NoStorageError(FileLog(reqs[p].issued, j))) =>
               \A n \in 1..Len(reqs[p].files[j].data) :
                  IsValid(reqs[p].files[j].data[n]) =>
                     Persisted(reqs[p].userId, UploadSrc(p, j),
                               reqs[p].files[j].data[n])

----------------------------------------------------------------------------
(* Properties of the tables as a whole. *)

\* The rows the process found in the table when it started.
InitialRows == {h \in history : h.src.kind = "upload" /\ h.src.run = 0}

\* The rows of the insert statements that upload p, the sync and Spotify
\* sync p have issued with success, as their logs tell.
UploadLogRows(p) ==
    UNION { Rows(reqs[p].userId, reqs[p].issued[m].batch,
                 UploadSrc(p, reqs[p].issued[m].f), m)
            : m \in {k \in 1..Len(reqs[p].issued) : reqs[p].issued[k].ok} }
SyncLogRows ==
    UNION { UNION { Rows(e.user, sync.issued[m].batch,
                         SyncSrc(e.key, sync.issued[m].f), m)
                    : m \in {k \in 1..Len(sync.issued) :
                               sync.issued[k].ok /\ sync.issued[k].key = e.key} }
            : e \in sync.entered }
SpotifyLogRows(p) ==
    { [user_id |-> reqs[p].userId, ts |-> reqs[p].items[k].ts,
       track |-> reqs[p].items[k].track,
       artist |-> ItemArtist(reqs[p].items[k]), ms |-> reqs[p].items[k].ms,
       src |-> [kind |-> "spotify", run |-> p, key |-> 0, file |-> k],
       n |-> <<k, 1>>]
      : k \in 1..reqs[p].imported }

\* C17: at every state the rows of streaming_history are the rows the
\* process started with, as they were, and the rows of the insert
\* statements of uploads, Spotify syncs and the bulk sync: no row is
\* changed or removed, and the profile, artist, comment, like, search and
\* auth handlers add none.
C17_EventsImmutable ==
    /\ Rows(1, ValidRecords(FLong.data), LoadedSrc(1), 1) \subseteq history
    /\ Rows(2, ValidRecords(FNova.data), LoadedSrc(2), 1) \subseteq history
    /\ Rows(3, ValidRecords(FOne.data), LoadedSrc(3), 1) \subseteq history
    /\ Cardinality(InitialRows) = 8
    /\ history \ InitialRows =
         SyncLogRows
         \cup UNION { UploadLogRows(p) :
                        p \in {q \in 1..Len(reqs) : reqs[q].op = "upload"} }
         \cup UNION { SpotifyLogRows(p) :
                        p \in {q \in 1..Len(reqs) : reqs[q].op = "spotify"} }

\* C17 witness: the table has grown beyond the rows the process started
\* with, and a handler that is not an ingestion has answered.
C17_Witness ==
    /\ \E h \in history : h.src.kind = "spotify" \/ h.src.run > 0
    /\ \E p \in 1..Len(reqs) :
         /\ reqs[p].op \in {"profile", "artist", "comment", "like", "search",
                            "login", "signup", "setPassword", "logout", "me"}
         /\ reqs[p].pc = "done"

\* C18: at every state comment_likes holds at most one row per pair of
\* comment and user.
C18_OneLikePerPair ==
    \A l1, l2 \in likes :
       (l1.comment_id = l2.comment_id /\ l1.user_id = l2.user_id) => l1 = l2

\* C18 witness: two like requests of one user on one comment, the second
\* received before the first was answered, have both run their insert and
\* the comment has one row.
C18_Witness ==
    \E p, q \in 1..Len(reqs) :
       /\ p < q
       /\ reqs[p].op = "like" /\ reqs[q].op = "like"
       /\ reqs[p].userId = reqs[q].userId
       /\ reqs[p].commentId = reqs[q].commentId
       /\ p \notin reqs[q].seen
       /\ reqs[p].added /\ ~reqs[q].added /\ reqs[q].status # 500
       /\ Cardinality({l \in likes : l.comment_id = reqs[p].commentId}) = 1

\* C19 as claimed: no two rows of users have the same display name,
\* compared without regard to case.
C19_UniqueNames ==
    \A u1, u2 \in users :
       EqIgnoreCase(u1.username, u2.username) => u1 = u2

----------------------------------------------------------------------------
(* The order of the statements of a run.  A step of a run completes the   *)
(* statement the run awaits and issues the next: the statement in flight  *)
(* is the one at the run's position (file f, offset i) while its pc is    *)
(* "batch", and the log holds the completed ones.                         *)

\* The log up to statement m holds, for the file of statement m, the
\* batches of the file in order, statement m being the latest of them.
NthOfFile(log, m) ==
    Cardinality({k \in 1..m : log[k].f = log[m].f})

\* Statement m of the log was issued in the order of the loops: it is the
\* next batch of the file of the statement before it, which succeeded, or
\* the first batch of a later file, the file before having failed or
\* reached its last batch.
InLoopOrder(files, log, m) ==
    LET valid == ValidOf(files, log[m].f)
        nth == NthOfFile(log, m)
    IN /\ log[m].batch = SubSeq(valid, (nth - 1) * BATCH_SIZE + 1,
                                Min(nth * BATCH_SIZE, Len(valid)))
       /\ m > 1 =>
            \/ /\ log[m - 1].f = log[m].f
               /\ log[m - 1].ok
            \/ /\ log[m - 1].f < log[m].f
               /\ nth = 1
               /\ \/ ~log[m - 1].ok
                  \/ NthOfFile(log, m - 1) * BATCH_SIZE
                       >= Len(ValidOf(files, log[m - 1].f))

\* The statement in flight at file f and offset i follows the completed
\* ones in the order of the loops.
InFlightInOrder(files, log, f, i) ==
    /\ f \in 1..Len(files)
    /\ i < Len(ValidOf(files, f))
    /\ i = BATCH_SIZE * Cardinality({k \in 1..Len(log) : log[k].f = f})
    /\ log # <<>> =>
         LET last == log[Len(log)]
         IN \/ last.f = f /\ last.ok
            \/ /\ last.f < f /\ i = 0
               /\ \/ ~last.ok
                  \/ NthOfFile(log, Len(log)) * BATCH_SIZE
                       >= Len(ValidOf(files, last.f))

\* C20: within an upload and within the sync of one name the statements
\* run one after the other: the one in flight was issued after all the
\* others of the run had completed, batch k + 1 of a file after batch k had
\* succeeded, the first batch of a file after the file before it had
\* finished or failed.
C20_SequentialIngestion ==
    /\ \A p \in 1..Len(reqs) :
         reqs[p].op = "upload" =>
           /\ \A m \in 1..Len(reqs[p].issued) :
                 InLoopOrder(reqs[p].files, reqs[p].issued, m)
           /\ reqs[p].pc = "batch" =>
                 InFlightInOrder(reqs[p].files, reqs[p].issued,
                                 reqs[p].f, reqs[p].i)
    /\ \A e \in sync.entered :
         LET files == SyncFiles(disk, sync.keys[e.key])
         IN /\ \A m \in 1..Len(KeyLog(e.key)) :
                  InLoopOrder(files, KeyLog(e.key), m)
            /\ (sync.pc = "batch" /\ sync.k = e.key) =>
                  InFlightInOrder(files, KeyLog(e.key), sync.f, sync.i)

\* C20 witness: an upload awaits the third batch of a file after two
\* completed ones, and the sync awaits the first batch of the second file
\* of a name.
C20_Witness ==
    /\ \E p \in 1..Len(reqs) :
         /\ reqs[p].op = "upload" /\ reqs[p].pc = "batch"
         /\ reqs[p].i = 2 * BATCH_SIZE
         /\ Len(reqs[p].issued) = 2
    /\ sync.pc = "batch" /\ sync.f = 2 /\ sync.i = 0
    /\ KeyLog(sync.k) # <<>>

----------------------------------------------------------------------------
(* Properties of the top lists. *)

\* A list of (key, sum) pairs is a top list of the sums in Sums: at most
\* TOP_LIMIT long, every entry's sum the true sum of its key, sums
\* non-increasing along the list, and no key outside it with a strictly
\* larger sum than a key inside it.
IsTopList(keys, Sums) ==
    /\ Len(keys) <= TOP_LIMIT
    /\ \A n \in 1..Len(keys) : keys[n] \in DOMAIN Sums
    /\ \A n, k \in 1..Len(keys) : n < k => Sums[keys[n]] >= Sums[keys[k]]
    /\ \A n, k \in 1..Len(keys) : n # k => keys[n] # keys[k]
    /\ \A x \in DOMAIN Sums :
         (\A n \in 1..Len(keys) : keys[n] # x) =>
            \A n \in 1..Len(keys) : Sums[x] <= Sums[keys[n]]

\* The summed durations the three queries rank, computed from the table.
BoardSums(artist) ==
    [uid \in {h.user_id : h \in {x \in history : ILike(x.artist, artist)}} |->
       SumMs({h \in history : h.user_id = uid /\ ILike(h.artist, artist)})]
ArtistSums(uid) ==
    [a \in {h.artist : h \in {x \in history : x.user_id = uid}} |->
       SumMs({h \in history : h.user_id = uid /\ h.artist = a})]
SongSums(uid) ==
    [k \in {<<h.track, h.artist>> : h \in {x \in history : x.user_id = uid}} |->
       SumMs({h \in history : h.user_id = uid /\ h.track = k[1] /\ h.artist = k[2]})]

\* The step in which a query of a page runs, and the list it produced.
C21_Step ==
    /\ (Len(reqs') = Len(reqs) + 1 /\ reqs'[Len(reqs')].op = "artist") =>
          LET r == reqs'[Len(reqs')]
          IN /\ IsTopList([n \in 1..Len(r.board) |-> r.board[n].userId],
                          BoardSums(r.artist))
             /\ \A n \in 1..Len(r.board) : r.board[n].rank = n
    /\ \A p \in 1..Len(reqs) :
          /\ (p <= Len(reqs') /\ reqs[p].op = "profile"
                /\ reqs[p].pc = "topArtists" /\ reqs'[p].pc = "topSongs") =>
                IsTopList([n \in 1..Len(reqs'[p].topArtists) |->
                              reqs'[p].topArtists[n].name],
                          ArtistSums(reqs[p].user))
          /\ (p <= Len(reqs') /\ reqs[p].op = "profile"
                /\ reqs[p].pc = "topSongs" /\ reqs'[p].pc = "done") =>
                IsTopList([n \in 1..Len(reqs'[p].topSongs) |->
                              <<reqs'[p].topSongs[n].name,
                                reqs'[p].topSongs[n].artist>>],
                          SongSums(reqs[p].user))

\* C21: the artist leaderboard holds at most TOP_LIMIT entries with ranks
\* 1..n in list order and summed durations non-increasing along the list, a
\* profile's topArtists and topSongs hold at most TOP_LIMIT entries in
\* non-increasing order of summed duration, and a user, artist or song
\* outside a list never has a strictly larger sum than one inside it.
C21_TopLists == [][C21_Step]_vars

\* C21 witness: a profile was sent whose topArtists and topSongs are both
\* full while the user has more artists and more songs than fit.
C21_Witness ==
    \E p \in 1..Len(reqs) :
       /\ reqs[p].op = "profile" /\ reqs[p].pc = "done" /\ reqs[p].status = 200
       /\ Len(reqs[p].topArtists) = TOP_LIMIT
       /\ Len(reqs[p].topSongs) = TOP_LIMIT
       /\ Cardinality(DOMAIN ArtistSums(reqs[p].user)) > TOP_LIMIT
       /\ Cardinality(DOMAIN SongSums(reqs[p].user)) > TOP_LIMIT

----------------------------------------------------------------------------
(* Properties of the reported counts. *)

\* The rows the current sync run inserted for the name at position k.
SyncKeyRows(k) ==
    {h \in history : h.src.kind = "sync" /\ h.src.run = sync.run /\ h.src.key = k}

\* C22: the count an ingestion run reports, recordsImported of an upload
\* and the total logged per user by the bulk sync, equals the number of
\* rows that run inserted, at the response and at every moment before it,
\* also when an insert of the run failed.
C22_CountIsInserted ==
    /\ \A p \in 1..Len(reqs) :
         reqs[p].op = "upload" => reqs[p].total = Cardinality(UploadRows(p))
    /\ \A n \in 1..Len(sync.imported) :
         sync.imported[n].total = Cardinality(SyncKeyRows(sync.imported[n].key))
    /\ sync.pc = "batch" => sync.total = Cardinality(SyncKeyRows(sync.k))

\* C22 witness: an upload was answered, and the sync logged a user's total,
\* each after one of its inserts failed and another succeeded.
C22_Witness ==
    \/ \E p \in 1..Len(reqs) :
         /\ reqs[p].op = "upload" /\ reqs[p].status = 200
         /\ reqs[p].total > 0
         /\ \E m \in 1..Len(reqs[p].issued) : ~reqs[p].issued[m].ok
    \/ \E n \in 1..Len(sync.imported) :
         /\ sync.imported[n].total > 0
         /\ \E m \in 1..Len(sync.issued) :
              /\ sync.issued[m].key = sync.imported[n].key
              /\ ~sync.issued[m].ok

----------------------------------------------------------------------------
(* Properties of the bulk sync beside other ingestion. *)

\* Row g was not inserted by the sync run and name that insert row h.
OtherData(g, h) ==
    ~(g.src.kind = "sync" /\ g.src.run = h.src.run /\ g.src.key = h.src.key)

\* C23 as claimed: the bulk sync inserts no row for a user at a moment when
\* that user already has rows that this run did not insert for that name,
\* also when an upload for the same name runs beside it.
C23_SyncNeverOnTopOfData ==
    [][\A h \in history' \ history :
          h.src.kind = "sync" =>
             \A g \in history : g.user_id = h.user_id => ~OtherData(g, h)]_vars

\* The rows that run r of the sync inserted from the files of the name at
\* position k of the directory's names.
RunKeyRows(r, k) ==
    {h \in history : h.src.kind = "sync" /\ h.src.run = r /\ h.src.key = k}

\* Run r is over and left the name at position k partly imported: it
\* inserted at least one batch of the name's files, and not all of their
\* valid records.
StoppedPartly(r, k) ==
    /\ r < sync.run
    /\ RunKeyRows(r, k) # {}
    /\ Cardinality(RunKeyRows(r, k))
         < TotalValid(SyncFiles(disk, SyncKeys(disk)[k]))

\* C24 as claimed: when a run of the bulk sync stopped for a user after at
\* least one of that user's batches was inserted, no later run inserts a
\* record of that user's files.
C24_PartialStaysPartial ==
    \A r \in 1..MaxSyncRuns, k \in 1..Len(SyncKeys(disk)) :
       StoppedPartly(r, k) =>
          \A later \in (r + 1)..MaxSyncRuns : RunKeyRows(later, k) = {}

\* The current run is through with the name at position k: its try block
\* threw, or the user was skipped for having data, or the files loop ran
\* and the user's total was logged.
SyncHandled(k) ==
    \/ k \in sync.failed
    \/ \E e \in sync.skipped : e.key = k
    \/ /\ \E e \in sync.entered : e.key = k
       /\ \E n \in 1..Len(sync.imported) : sync.imported[n].key = k

\* C25: in the bulk sync, a user whose lookup, insert or has-data count
\* throws is the only user that failure skips: the run ends only when
\* every name of the directory was handled, each name before the current
\* one was handled, and a name that threw has no row from the run.
C25_FailureSkipsOneUser ==
    /\ sync.pc = "done" => sync.k = Len(sync.keys) + 1
    /\ \A k \in 1..Len(sync.keys) : k < sync.k => SyncHandled(k)
    /\ \A k \in sync.failed : SyncKeyRows(k) = {}

\* C25 witness: a run is over in which one name threw and a later name was
\* resolved and its records imported.
C25_Witness ==
    /\ sync.pc = "done"
    /\ \E k \in sync.failed, e \in sync.entered :
         /\ e.key > k
         /\ SyncKeyRows(e.key) # {}
         /\ \E n \in 1..Len(sync.imported) :
              sync.imported[n].key = e.key /\ sync.imported[n].total > 0

----------------------------------------------------------------------------
(* Properties of the auth handlers. *)

\* A user's stored password lets password pw in: the user has no hash, or
\* pw is given and matches the hash.
PasswordOk(u, pw) ==
    u.password_hash = NULL \/ (pw # "" /\ Compare(pw, u.password_hash))

\* The step is the arrival of a request of handler op.
Arrives(op) ==
    Len(reqs') = Len(reqs) + 1 /\ reqs'[Len(reqs')].op = op

\* C26 as claimed: a login is answered with a session token if and only if
\* a user with the given name (ignoring case) exists whose password check
\* passes, and otherwise with 401, no token and no change of stored data.
C26_LoginIffNameAndPassword ==
    [][Arrives("login") =>
         LET r == reqs'[Len(reqs')]
             ok == \E u \in users : /\ EqIgnoreCase(u.username, r.name)
                                    /\ PasswordOk(u, r.password)
         IN /\ r.status = 200 <=> ok
            /\ r.status = 200 => tokens' = tokens \cup {r.user}
            /\ r.status # 200 =>
                 /\ r.status = 401
                 /\ tokens' = tokens
                 /\ UNCHANGED <<users, history, comments, likes>>]_vars

\* The password hash of user uid in the table U.
HashOf(U, uid) == (CHOOSE u \in U : u.id = uid).password_hash

\* The step is a set-password request that carries cookie c and password pw.
C27_Step(c, pw) ==
    LET r == reqs'[Len(reqs')]
    IN /\ c.kind # "valid" =>
            /\ r.status = 401
            /\ users' = users
            /\ SetPassword(AuthMiddleware(NoCookie), pw)
       /\ (c.kind = "valid" /\ PasswordLength(pw) < 4) =>
            r.status = 400 /\ users' = users
       /\ (c.kind = "valid" /\ PasswordLength(pw) >= 4) =>
            r.status = 200 /\ HashOf(users', c.userId) = Hash(pw)
       /\ {u.id : u \in users'} = {u.id : u \in users}
       /\ \A u \in users :
            HashOf(users', u.id) # u.password_hash =>
               c.kind = "valid" /\ c.userId = u.id /\ PasswordLength(pw) >= 4

\* C27: set-password changes a password hash only for the user of the
\* request's valid token and only for a password of at least 4 characters;
\* without a valid token the answer is 401, with a shorter or missing
\* password 400, and in both cases no hash changes; a request with a forged
\* or expired token is handled as the same request without a token.
C27_SetPasswordOwnOnly ==
    [][\A c \in Cookies, pw \in Passwords :
          SetPassword(AuthMiddleware(c), pw) => C27_Step(c, pw)]_vars

\* C27 witness: requests with an expired token, with a short password and
\* with a valid token and a long password were answered 401, 400 and 200,
\* and the caller's hash is the one of the new password.
C27_Witness ==
    \E p, q \in 1..Len(reqs) :
       /\ reqs[p].op = "setPassword" /\ reqs[p].status \in {400, 401}
       /\ reqs[q].op = "setPassword" /\ reqs[q].status = 200
       /\ reqs[q].password = "wxyz"
       /\ HashOf(users, reqs[q].user) = Hash("wxyz")

\* C28 as claimed: every signup is answered either with a new user of its
\* trimmed name and a token for that user, or with 400 and no user, and two
\* signups never create users for the same name ignoring case.
C28_SignupOneUserOrRejected ==
    /\ \A p \in 1..Len(reqs) :
         (reqs[p].op = "signup" /\ reqs[p].pc = "done") =>
            \/ /\ reqs[p].status = 200
               /\ Len(reqs[p].name) >= 2
               /\ reqs[p].user \in tokens
               /\ \E u \in users :
                    u.id = reqs[p].user /\ u.username = reqs[p].name
            \/ reqs[p].status = 400 /\ reqs[p].user = 0
    /\ \A p, q \in 1..Len(reqs) :
         (/\ p # q
          /\ reqs[p].op = "signup" /\ reqs[p].status = 200
          /\ reqs[q].op = "signup" /\ reqs[q].status = 200) =>
            ~EqIgnoreCase(reqs[p].name, reqs[q].name)

----------------------------------------------------------------------------
(* Properties of likes on missing comments and of requests without a
   session. *)

\* The ids of the rows of the comments table.
CommentIds == {c.id : c \in comments}

\* C29: a like request for a comment id that no row of comments has is
\* answered with an error and leaves comments and comment_likes as they
\* were, and no row of comment_likes names a comment that does not exist.
C29_NoLikeWithoutComment ==
    [][/\ (Arrives("like") /\ reqs'[Len(reqs')].commentId \notin CommentIds) =>
            /\ reqs'[Len(reqs')].pc = "done"
            /\ reqs'[Len(reqs')].status = 500
            /\ UNCHANGED <<comments, likes>>
       /\ \A l \in likes' : \E c \in comments' : c.id = l.comment_id]_vars

\* C29 witness: a like of a missing comment was answered with an error
\* while a comment with a like exists.
C29_Witness ==
    /\ \E p \in 1..Len(reqs) :
         /\ reqs[p].op = "like" /\ reqs[p].status = 500
         /\ reqs[p].commentId \notin CommentIds
    /\ \E l \in likes : l.comment_id \in CommentIds

\* The rows of comment_likes in table L for comment cid by user uid.
LikesBy(L, cid, uid) == {l \in L : l.comment_id = cid /\ l.user_id = uid}

\* A comment or like request that carries cookie c, not a valid token.
C30_Step ==
    /\ \A c \in Cookies, content \in CommentContents :
         (c.kind # "valid"
            /\ CommentInsert(AuthMiddleware(c), ArtistQ, content)) =>
              /\ reqs'[Len(reqs')].userId = 1
              /\ \A x \in comments' \ comments : x.user_id = 1
    /\ \A c \in Cookies, cid \in 1..nextCommentId :
         (c.kind # "valid" /\ LikeInsert(AuthMiddleware(c), cid)) =>
              /\ reqs'[Len(reqs')].userId = 1
              /\ \A l \in likes' \ likes : l.user_id = 1 /\ l.comment_id = cid
    /\ \A x \in comments' :
         /\ Cardinality(LikesBy(likes', x.id, 1)) <= 1
         /\ x.likes <= Cardinality({l \in likes' : l.comment_id = x.id
                                                     /\ l.user_id # 1}) + 1

\* C30: a comment or like request without a valid session acts as the user
\* with id 1: its comment is stored with user id 1, its like is a row of
\* user 1, and all such likes together make at most one row per comment, so
\* that a comment's like count is at most one above the likes of the other
\* users.
C30_NoSessionActsAsDemoUser == [][C30_Step]_vars

\* C30 witness: user 1 holds no token, a comment of user 1 is stored, and
\* two like requests acting as user 1 were answered for it while its like
\* count is 1.
C30_Witness ==
    /\ 1 \notin tokens
    /\ \E x \in comments :
         /\ x.user_id = 1
         /\ x.likes = 1
         /\ \E p, q \in 1..Len(reqs) :
              /\ p # q
              /\ reqs[p].op = "like" /\ reqs[q].op = "like"
              /\ reqs[p].userId = 1 /\ reqs[q].userId = 1
              /\ reqs[p].commentId = x.id /\ reqs[q].commentId = x.id
              /\ reqs[p].status = 200 /\ reqs[q].status = 200

============================================================================
